---- MODULE Spec2Model ----
(***************************************************************************)
(* MARK: provider abstraction, streaming orchestrator and application      *)
(* loop.  Texts are sequences of one-character strings, so that string     *)
(* concatenation, prefixes and Python's sequence unpacking of a str keep   *)
(* their meaning.                                                          *)
(***************************************************************************)
EXTENDS Integers, Sequences, FiniteSets, TLC

\* ------------------------------------------------------------------ bounds
MaxFrags == 3
MaxCalls == 2
MaxPairs == 1
MaxChunks == 2
MaxInputs == 2
MaxDrafts == 2
MaxWords == 3
MaxRuns == 1

\* ------------------------------------------------------- program constants
\* update_interval = 0.016 s, in milliseconds
UpdateInterval == 16
\* asyncio.sleep(0.001), in milliseconds
SleepMs == 1
\* value of the event loop clock when a streaming call starts (ms)
StartTime == 1000

\* ------------------------------------------------------------------- texts
None == "None"

\* "\n\n*[Response stopped]*"
StoppedMarker ==
  << "\n", "\n", "*", "[", "R", "e", "s", "p", "o", "n", "s", "e", " ",
     "s", "t", "o", "p", "p", "e", "d", "]", "*" >>

\* the streaming cursor appended to every partial render
Cursor == << "|" >>

\* fragments a backend may deliver
Fragments == { << "H", "e", "l" >>, << "l", "o" >>, << "!" >> }

RECURSIVE SeqsUpTo(_, _)
SeqsUpTo(S, n) ==
  IF n = 0 THEN { << >> }
  ELSE LET shorter == SeqsUpTo(S, n - 1)
       IN  shorter \cup { Append(s, x) : s \in { t \in shorter : Len(t) = n - 1 }, x \in S }

RECURSIVE Concat(_)
Concat(ss) == IF ss = << >> THEN << >> ELSE Head(ss) \o Concat(Tail(ss))

IsPrefix(p, s) == Len(p) <= Len(s) /\ SubSeq(s, 1, Len(p)) = p

\* ------------------------------------------------------ failure taxonomy
\* what a provider's stream_message raises, by kind: the Python class and
\* the message of the exception leaving the adapter
ErrKinds == { "InvalidCredential", "RateLimited", "BackendUnavailable", "Unknown", "ResourceLoad" }

PyClass(kind) ==
  CASE kind = "InvalidCredential" -> "ValueError"
    [] kind = "RateLimited" -> "RuntimeError"
    [] kind = "BackendUnavailable" -> "RuntimeError"
    [] kind = "Unknown" -> "RuntimeError"
    [] kind = "ResourceLoad" -> "FileNotFoundError"

\* subclasses of Exception (what `except Exception` catches)
ExceptionSubclasses == { "ValueError", "RuntimeError", "FileNotFoundError", "ImportError", "TypeError" }

VARIABLES
  \* --- streaming orchestrator (MarkInterface.stream_ai_message)
  stream,            \* the provider's lazy fragment sequence of this call
  pulled,            \* fragments delivered by the stream so far
  full_content,      \* the running buffer
  cancel_event,      \* the shared cancellation signal
  opc,               \* position of the orchestrator
  live,              \* what the display sink was given, in order
  now,               \* event loop clock (ms)
  last_update_time,  \* clock value of the last partial refresh
  thinking_only,     \* parameter: show a loader instead of the text
  ret,               \* value returned by stream_ai_message
  cancelAt,          \* fragments delivered when the signal was set (-1: not set)
  \* --- the caller's `a, b = await stream_ai_message(...)`
  cpc, cFull, cTtft, cErr,
  \* --- one provider instance (AIProvider and its adapters)
  kind,              \* which adapter class the instance is
  model,             \* self.model
  chat,              \* self._chat: the SDK chat session, or None
  usage,             \* self._session_usage
  gen,               \* the running stream_message generator, or None
  lastCall,          \* what the last send_message / stream_message did
  tally,             \* completed calls and their per-call usage since the last usage reset
  llm,               \* self._llm is not None (the local GGUF adapter's loaded model)
  lastOp,            \* the last operation on the provider, its result and the state it found
  \* --- the application (MarkApp)
  has_provider,      \* self.provider is not None
  config,            \* the fields of self.config the request handlers read
  context,           \* self.context
  apc,               \* position of the application loop
  req,               \* the input line being handled and the call it awaits
  kleos,             \* locals of _handle_kleos_mode
  shown,             \* what the handlers printed for the current input line
  log,               \* conversations given to db.add_conversation
  escaped,           \* class of the exception that left run(), or None
  inputs             \* lines read at the main prompt

ovars == << stream, pulled, full_content, cancel_event, opc, live, now,
            last_update_time, thinking_only, ret, cancelAt >>
cvars == << cpc, cFull, cTtft, cErr >>
pvars == << kind, model, chat, usage, gen, lastCall, tally, llm, lastOp >>
avars == << has_provider, config, context, apc, req, kleos, shown, log, escaped, inputs >>
vars == << ovars, cvars, pvars, avars >>

\* ------------------------------------------------ orchestrator, helpers
Streams == [ frags : SeqsUpTo(Fragments, MaxFrags), err : ErrKinds \cup { "none" } ]

PullDelays == { 0, 20 }

AppendChunk_Prepend(buf, chunk) == chunk \o buf

\* full_content += chunk
AppendChunk(buf, chunk) == buf \o chunk

CancelledContent_KeepChunk(buf, chunk) == buf \o chunk \o StoppedMarker

\* cancel branch: full_content += "\n\n*[Response stopped]*" (the chunk just
\* delivered is dropped)
CancelledContent(buf, chunk) == buf \o StoppedMarker

AfterCancel_Return == "returned"

\* position after the cancel branch: break leaves the loop
AfterCancel == "final"

\* live.update(MessagePanel.ai_message(full_content + cursor, ...))
PartialRender(buf, thinking) ==
  IF thinking THEN [ kind |-> "loader", text |-> << >> ]
  ELSE [ kind |-> "partial", text |-> buf \o Cursor ]

FinalRender(buf) == [ kind |-> "final", text |-> buf ]

Swallows_OnlyRuntimeError(cls) == cls = "RuntimeError"

\* `except Exception: pass` around the consuming loop
Swallows(cls) == cls \in ExceptionSubclasses

\* the buffer that survives an exception of the fragment sequence
AfterException(buf) == buf

\* ------------------------------------------------ orchestrator, actions
OrchIdle ==
  /\ stream = [ frags |-> << >>, err |-> "none" ]
  /\ pulled = 0
  /\ full_content = << >>
  /\ cancel_event = FALSE
  /\ opc = "idle"
  /\ live = << >>
  /\ now = 0
  /\ last_update_time = 0
  /\ thinking_only = FALSE
  /\ ret = None
  /\ cancelAt = -1

\* prologue of stream_ai_message up to the first await of the loop
OrchStart(s, thinking) ==
  /\ stream' = s
  /\ pulled' = 0
  /\ full_content' = << >>
  /\ cancel_event' = FALSE
  /\ opc' = "next"
  /\ live' = << PartialRender(<< >>, thinking) >>
  /\ now' = StartTime
  /\ last_update_time' = 0
  /\ thinking_only' = thinking
  /\ ret' = None
  /\ cancelAt' = -1

\* `async for chunk in stream` delivers a fragment; the loop body runs up to
\* its `await asyncio.sleep`
OrchChunkStep ==
  /\ opc = "next"
  /\ pulled < Len(stream.frags)
  /\ \E d \in PullDelays :
       LET chunk == stream.frags[pulled + 1]
           t == now + d
       IN  /\ pulled' = pulled + 1
           /\ now' = t
           /\ IF cancel_event
              THEN /\ full_content' = CancelledContent(full_content, chunk)
                   /\ opc' = AfterCancel
                   /\ UNCHANGED << live, last_update_time >>
              ELSE /\ full_content' = AppendChunk(full_content, chunk)
                   /\ opc' = "sleep"
                   /\ IF t - last_update_time > UpdateInterval
                      THEN /\ live' = Append(live, PartialRender(full_content', thinking_only))
                           /\ last_update_time' = t
                      ELSE UNCHANGED << live, last_update_time >>
  /\ UNCHANGED << stream, cancel_event, thinking_only, ret, cancelAt >>

\* await asyncio.sleep(0.001)
OrchSleepStep ==
  /\ opc \in { "sleep" }
  /\ now' = now + SleepMs
  /\ opc' = "next"
  /\ UNCHANGED << stream, pulled, full_content, cancel_event, live,
                  last_update_time, thinking_only, ret, cancelAt >>

\* the stream is exhausted: StopAsyncIteration ends the loop
OrchExhaustedStep ==
  /\ opc = "next"
  /\ pulled = Len(stream.frags)
  /\ stream.err = "none"
  /\ opc' = "final"
  /\ UNCHANGED << stream, pulled, full_content, cancel_event, live, now,
                  last_update_time, thinking_only, ret, cancelAt >>

\* the stream raises instead of delivering the next fragment
OrchExceptionStep ==
  /\ opc = "next"
  /\ pulled = Len(stream.frags)
  /\ stream.err # "none"
  /\ IF Swallows(PyClass(stream.err))
     THEN /\ full_content' = AfterException(full_content)
          /\ opc' = "final"
     ELSE /\ opc' = "raised"
          /\ UNCHANGED full_content
  /\ UNCHANGED << stream, pulled, cancel_event, live, now,
                  last_update_time, thinking_only, ret, cancelAt >>

\* final render and return
OrchFinalStep ==
  /\ opc = "final"
  /\ live' = Append(live, FinalRender(full_content))
  /\ ret' = full_content
  /\ opc' = "returned"
  /\ UNCHANGED << stream, pulled, full_content, cancel_event, now,
                  last_update_time, thinking_only, cancelAt >>

\* the external trigger sets the signal while the orchestrator is suspended
SetCancelStep ==
  /\ opc \in { "next", "sleep" }
  /\ ~cancel_event
  /\ cancel_event' = TRUE
  /\ cancelAt' = pulled
  /\ UNCHANGED << stream, pulled, full_content, opc, live, now,
                  last_update_time, thinking_only, ret >>

\* the call is over: its locals and the Live display are gone
OrchDiscard ==
  /\ stream' = [ frags |-> << >>, err |-> "none" ]
  /\ pulled' = 0
  /\ full_content' = << >>
  /\ cancel_event' = FALSE
  /\ opc' = "idle"
  /\ live' = << >>
  /\ now' = 0
  /\ last_update_time' = 0
  /\ thinking_only' = FALSE
  /\ ret' = None
  /\ cancelAt' = -1

\* the orchestrator driven by a scripted stream, nothing else moving
OrchChunk == OrchChunkStep /\ UNCHANGED << cvars, pvars, avars >>
OrchSleep == OrchSleepStep /\ UNCHANGED << cvars, pvars, avars >>
OrchExhausted == OrchExhaustedStep /\ UNCHANGED << cvars, pvars, avars >>
OrchException == OrchExceptionStep /\ UNCHANGED << cvars, pvars, avars >>
OrchFinal == OrchFinalStep /\ UNCHANGED << cvars, pvars, avars >>
SetCancel == SetCancelStep /\ UNCHANGED << cvars, pvars, avars >>

\* ----------------------------------------------------- the caller's side
\* `full_content, ttft = <value>`: Python unpacks a str character by
\* character, and raises ValueError unless it has exactly two of them
UnpackPair(v) ==
  IF Len(v) = 2
  THEN [ ok |-> TRUE, first |-> << v[1] >>, second |-> << v[2] >> ]
  ELSE [ ok |-> FALSE, first |-> << >>, second |-> << >> ]

CallerIdle ==
  /\ cpc = "idle"
  /\ cFull = << >>
  /\ cTtft = None
  /\ cErr = None

\* a caller starts a streaming call
CallStream ==
  /\ cpc = "idle"
  /\ opc = "idle"
  /\ \E s \in Streams, thinking \in BOOLEAN : OrchStart(s, thinking)
  /\ cpc' = "awaiting"
  /\ UNCHANGED << cFull, cTtft, cErr, pvars, avars >>

\* the awaited call returned: destructure the result
CallerUnpack ==
  /\ cpc = "awaiting"
  /\ opc = "returned"
  /\ LET u == UnpackPair(ret)
     IN  IF u.ok
         THEN /\ cpc' = "ok"
              /\ cFull' = u.first
              /\ cTtft' = u.second
              /\ UNCHANGED cErr
         ELSE /\ cpc' = "error"
              /\ cErr' = "ValueError"
              /\ UNCHANGED << cFull, cTtft >>
  /\ UNCHANGED << ovars, pvars, avars >>

\* ------------------------------------------------- orchestrator, claims
Take(k) == Concat(SubSeq(stream.frags, 1, k))

\* the signal was set and a fragment delivered after that made the loop see it
CancelObserved == cancel_event /\ pulled > cancelAt

\* the fragment sequence raised
StreamRaised ==
  /\ opc \in { "final", "returned", "raised" }
  /\ stream.err # "none"
  /\ ~CancelObserved

FinalCommits == { i \in 1..Len(live) : live[i].kind = "final" }

\* C5: while fragments are consumed the buffer is the in-order concatenation
\* of the fragments delivered so far, every partial text shown is such a
\* prefix followed by the cursor, and a call that completes without
\* cancellation or exception returns the concatenation of all fragments.
C5_BufferIsOrderedPrefix ==
  /\ opc \in { "next", "sleep" } =>
       /\ full_content = Take(pulled)
       /\ IsPrefix(full_content, Concat(stream.frags))
  /\ \A i \in 1..Len(live) :
       live[i].kind = "partial" =>
         \E k \in 0..Len(stream.frags) : live[i].text = Take(k) \o Cursor
  /\ (opc = "returned" /\ ~cancel_event /\ stream.err = "none") =>
       ret = Concat(stream.frags)

C5_Witness ==
  /\ opc = "returned"
  /\ stream = [ frags |-> << << "H", "e", "l" >>, << "l", "o" >> >>, err |-> "none" ]
  /\ ~cancel_event
  /\ ret = << "H", "e", "l", "l", "o" >>
  /\ \E i \in 1..Len(live) : live[i] = [ kind |-> "partial", text |-> << "H", "e", "l" >> \o Cursor ]

\* C6: once the signal set with a fragment still to come has been seen, the
\* text is the fragments delivered before the signal followed by the stopped
\* marker, exactly one fragment was pulled after the signal (and dropped),
\* consumption has ended, and that text is what gets committed.
C6_CancelStopsAtSignal ==
  CancelObserved =>
    /\ opc \in { "final", "returned" }
    /\ pulled = cancelAt + 1
    /\ full_content = Take(cancelAt) \o StoppedMarker
    /\ opc = "returned" => live[Len(live)] = [ kind |-> "final", text |-> Take(cancelAt) \o StoppedMarker ]

C6_Witness ==
  /\ opc = "returned"
  /\ CancelObserved
  /\ cancelAt = 1
  /\ Len(stream.frags) = 3
  /\ ret = stream.frags[1] \o StoppedMarker

\* C7: when the fragment sequence raises, at any position, the orchestrator
\* does not raise and ends with exactly the text accumulated before.
C7_ExceptionSwallowed ==
  /\ opc # "raised"
  /\ StreamRaised =>
       /\ full_content = Concat(stream.frags)
       /\ opc = "returned" => (ret = Concat(stream.frags) /\ live[Len(live)] = FinalRender(ret))

C7_Witness ==
  /\ opc = "returned"
  /\ StreamRaised
  /\ stream.err = "InvalidCredential"
  /\ Len(stream.frags) = 2
  /\ ret = Concat(stream.frags)

C7_WitnessBeforeFirst ==
  /\ opc = "returned"
  /\ StreamRaised
  /\ stream.frags = << >>
  /\ ret = << >>

\* C8 (as claimed): the value the orchestrator returns destructures into
\* (full_text, time_to_first_token): the caller's unpacking succeeds and its
\* first value is the complete accumulated text.
C8_ReturnsPair ==
  cpc \in { "ok", "error" } => (cpc = "ok" /\ cFull = full_content)

\* C9: at most one final commit ever; when the call has ended (completion,
\* cancellation or exception) there is exactly one, it is the last thing the
\* sink was given, and its text is the returned text; no path ends otherwise.
C9_OneFinalCommit ==
  /\ Cardinality(FinalCommits) <= 1
  /\ opc \notin { "raised" }
  /\ opc = "returned" <=> FinalCommits # { }
  /\ opc = "returned" =>
       /\ FinalCommits = { Len(live) }
       /\ live[Len(live)].text = ret

C9_Witness ==
  /\ opc = "returned"
  /\ CancelObserved
  /\ Len(live) >= 3
  /\ live[Len(live)].text = ret

C9_WitnessException ==
  /\ opc = "returned"
  /\ StreamRaised
  /\ Len(live) >= 3

\* ------------------------------------------------------------- providers
Kinds == { "gemini", "groq", "ollama", "gguf" }

\* GeminiProvider.MODELS (a system-channel model and two Gemma variants)
GeminiModels == { "gemini-2.5-flash", "gemma-3-27b", "gemma-3-27b-it" }

\* GroqProvider.MODELS
GroqModels == { "llama-3.3-70b-versatile", "groq/compound" }

\* model names a caller may ask for
ModelNames == GeminiModels \cup GroqModels \cup { "llama3" }

AvailableModels(k) ==
  CASE k = "gemini" -> GeminiModels
    [] k = "groq" -> GroqModels
    [] OTHER -> { }

DefaultModel(k) ==
  CASE k = "gemini" -> "gemini-2.5-flash"
    [] k = "groq" -> "llama-3.3-70b-versatile"
    [] k = "ollama" -> "llama3"
    [] k = "gguf" -> "llama3"

\* "gemma" in self.model.lower()
IsGemma(m) == m \in { "gemma-3-27b", "gemma-3-27b-it" }

\* GeminiProvider._get_api_model_name
ApiModelName(m) == IF m \in { "gemma-3-27b", "gemma-3-27b-it" } THEN "gemma-3-27b-it" ELSE m

NoChat == << >>
NoMeta == << >>
NoGen == << >>

Sep == << "\n\n" >>

Msg(role, content) == [ role |-> role, content |-> content ]
Turn(role, text) == [ role |-> role, text |-> text ]

ZeroUsage == [ tokens_input |-> 0, tokens_output |-> 0, tokens_total |-> 0, requests_count |-> 0 ]

\* AIProvider.update_session_usage
UpdateSessionUsage(acc, u) ==
  [ tokens_input |-> acc.tokens_input + u.tokens_input,
    tokens_output |-> acc.tokens_output + u.tokens_output,
    tokens_total |-> acc.tokens_total + u.tokens_total,
    requests_count |-> acc.requests_count + 1 ]

\* the per-call UsageStats an adapter builds from the backend's metadata
CallUsage(k, meta) ==
  IF meta = NoMeta THEN ZeroUsage
  ELSE LET m == meta[1]
       IN  [ tokens_input |-> m.i,
             tokens_output |-> m.o,
             tokens_total |-> IF k = "ollama" THEN m.i + m.o ELSE m.t,
             requests_count |-> 0 ]

BuildHistory_DropFirst(history_in, is_gemma, sys) ==
  [ i \in 1..(Len(history_in) - 1) |->
      Turn(IF history_in[i + 1].role = "user" THEN "user" ELSE "model", history_in[i + 1].content) ]

\* the `history` list GeminiProvider builds from the caller's context
BuildHistory(history_in, is_gemma, sys) ==
  [ i \in 1..Len(history_in) |->
      LET role == IF history_in[i].role = "user" THEN "user" ELSE "model"
      IN  Turn(role,
               IF i = 1 /\ is_gemma /\ sys # << >> /\ role = "user"
               THEN sys \o Sep \o history_in[i].content
               ELSE history_in[i].content) ]

GeminiMemoryBlock(mem) ==
  << "--- MEMORY CONTEXT (TRANSLATE IF NEEDED) ---\n", "<MEMORIES>\n" >> \o mem
    \o << "\n</MEMORIES>\n", "------------------------------------------\n\n" >>

\* should_inject_system
ShouldInjectSystem(is_gemma, sys, chatNow, history) ==
  is_gemma /\ sys # << >> /\ chatNow = NoChat /\ history = << >>

\* user_message
GeminiUserMessage(message, sys, mem, inject) ==
  IF mem # << >>
  THEN IF inject THEN sys \o Sep \o GeminiMemoryBlock(mem) \o message
       ELSE GeminiMemoryBlock(mem) \o message
  ELSE IF inject THEN sys \o Sep \o message
       ELSE message

\* client.aio.chats.create(model=..., config=..., history=history)
NewChat(m, sys, history) ==
  [ model |-> ApiModelName(m),
    system_instruction |-> IF sys # << >> /\ ~IsGemma(m) THEN sys ELSE << >>,
    history |-> history ]

ChatForCall_Replay(chatNow, history, fresh) ==
  IF chatNow = NoChat \/ history = << >> THEN fresh
  ELSE [ chatNow[1] EXCEPT !.history = @ \o history ]

\* `if self._chat is None or not history: self._chat = create(...)`
ChatForCall(chatNow, history, fresh) ==
  IF chatNow = NoChat \/ history = << >> THEN fresh ELSE chatNow[1]

\* the SDK chat session records a completed exchange
Recorded(session, um, reply) ==
  [ session EXCEPT !.history = @ \o << Turn("user", um), Turn("model", reply) >> ]

StatelessMemory(mem) ==
  << "--- MEMORY CONTEXT ---\n", "<MEMORIES>\n" >> \o mem \o << "\n</MEMORIES>\n", "----------------------" >>

BuildMessages_NewestFirst(message, history_in, sys, mem) ==
  LET head == IF sys # << >>
              THEN << Msg("system", IF mem # << >> THEN sys \o Sep \o StatelessMemory(mem) ELSE sys) >>
              ELSE IF mem # << >> THEN << Msg("system", StatelessMemory(mem)) >>
              ELSE << >>
      hist == [ i \in 1..Len(history_in) |->
                  Msg(IF history_in[i].role = "user" THEN "user" ELSE "assistant", history_in[i].content) ]
  IN  head \o << Msg("user", message) >> \o hist

\* the message list of the stateless adapters (Groq inline, Ollama and GGUF
\* in _build_messages)
BuildMessages(message, history_in, sys, mem) ==
  LET head == IF sys # << >>
              THEN << Msg("system", IF mem # << >> THEN sys \o Sep \o StatelessMemory(mem) ELSE sys) >>
              ELSE IF mem # << >> THEN << Msg("system", StatelessMemory(mem)) >>
              ELSE << >>
      hist == [ i \in 1..Len(history_in) |->
                  Msg(IF history_in[i].role = "user" THEN "user" ELSE "assistant", history_in[i].content) ]
  IN  head \o hist \o << Msg("user", message) >>

\* how an adapter's except clauses turn a backend error into what leaves it
Classify(k, op, raw) ==
  CASE k = "gemini" /\ raw = "API_KEY_INVALID" -> "InvalidCredential"
    [] k = "gemini" /\ raw = "RATE_LIMIT" -> "RateLimited"
    [] k = "gemini" /\ raw = "SAFETY" /\ op = "send" -> "ContentBlocked"
    [] k = "groq" /\ raw = "API_KEY_INVALID" -> "InvalidCredential"
    [] k = "groq" /\ raw = "RATE_LIMIT" -> "RateLimited"
    [] k = "ollama" /\ raw = "CONNECT" -> "BackendUnavailable"
    [] k = "ollama" /\ raw = "FOREIGN_CONNECT" /\ op = "stream" -> "Unclassified"
    [] OTHER -> "Unknown"

\* backend errors by what their text or class says: an invalid key, a rate
\* limit, a policy refusal, httpx.ConnectError, an exception of another
\* library whose class name contains ConnectError, anything else
RawErrors == { "API_KEY_INVALID", "RATE_LIMIT", "SAFETY", "CONNECT", "FOREIGN_CONNECT", "OTHER" }

\* the prefix the last except branch puts before the original message
ErrorPrefix(k, op) ==
  CASE k = "gemini" -> IF op = "send" THEN "Gemini Error: " ELSE "Gemini Streaming Error: "
    [] k = "groq" -> IF op = "send" THEN "Groq Error: " ELSE "Groq Streaming Error: "
    [] k = "ollama" -> IF op = "send" THEN "Ollama Error: " ELSE "Ollama Streaming Error: "
    [] k = "gguf" -> IF op = "send" THEN "Local Model Error: " ELSE "Local Model Streaming Error: "

\* the message of the exception (or of the blocked response) that leaves the
\* adapter for a backend error
ErrorText(k, op, raw) ==
  LET c == Classify(k, op, raw)
  IN  CASE c = "Unknown" -> << ErrorPrefix(k, op), raw >>
        [] c = "Unclassified" -> << raw >>
        [] c = "InvalidCredential" -> << "Invalid API key." >>
        [] c = "RateLimited" -> << "Rate limit exceeded." >>
        [] c = "BackendUnavailable" -> << "Cannot connect to Ollama. " >>
        [] c = "ContentBlocked" -> << "The response was blocked for safety reasons." >>

\* does stream_message yield this chunk's text
Yields(k, c) ==
  IF k = "groq" THEN c.has ELSE (c.has /\ c.text # << >>)

\* the usage update stream_message makes for a chunk
AfterChunk(k, u, c) ==
  IF k = "gemini" /\ c.meta # NoMeta THEN UpdateSessionUsage(u, CallUsage(k, c.meta)) ELSE u

\* run the generator body from chunk `pos` to its next yield or to its end
RECURSIVE GenScan(_, _, _, _)
GenScan(k, chunks, pos, u) ==
  IF pos > Len(chunks) THEN [ pos |-> pos, usage |-> u, yield |-> FALSE ]
  ELSE IF Yields(k, chunks[pos]) THEN [ pos |-> pos, usage |-> u, yield |-> TRUE ]
  ELSE GenScan(k, chunks, pos + 1, AfterChunk(k, u, chunks[pos]))

\* one resumption of the generator: g is its state, u the session usage
Resume(k, g, u) ==
  LET suspended == g.phase = "yielded"
      u1 == IF suspended THEN AfterChunk(k, u, g.chunks[g.pos]) ELSE u
      p1 == IF suspended THEN g.pos + 1 ELSE g.pos
      scan == GenScan(k, g.chunks, p1, u1)
  IN  [ gen |-> [ g EXCEPT !.pos = scan.pos,
                           !.phase = IF scan.yield THEN "yielded"
                                     ELSE IF g.err = "none" THEN "done" ELSE "raised" ],
        usage |-> scan.usage ]

\* text and last usage metadata of a complete stream
RECURSIVE StreamText(_)
StreamText(chunks) ==
  IF chunks = << >> THEN << >>
  ELSE (IF Head(chunks).has THEN Head(chunks).text ELSE << >>) \o StreamText(Tail(chunks))

RECURSIVE LastMeta(_)
LastMeta(chunks) ==
  IF chunks = << >> THEN NoMeta
  ELSE IF chunks[Len(chunks)].meta # NoMeta THEN chunks[Len(chunks)].meta
  ELSE LastMeta(SubSeq(chunks, 1, Len(chunks) - 1))

\* ----------------------------------------------------- provider, actions
Stateful(k) == k = "gemini"

\* a call with a message only
PlainArgs == [ message |-> << "q" >>, context |-> << >>, system_prompt |-> << >>, memories |-> << >> ]

NoCall ==
  [ op |-> "none", args |-> PlainArgs, model |-> None, chatBefore |-> NoChat, session |-> NoChat,
    sent |-> << >>, messages |-> << >>, outcome |-> "none",
    raw |-> "none", reported |-> FALSE, returned |-> ZeroUsage ]

\* what an operation found: the provider's model, usage accumulator, loaded
\* local model and session handle, and the caller's conversation history
Snapshot ==
  [ model |-> model, usage |-> usage, llm |-> llm, chat |-> chat, context |-> context,
    kind |-> kind, config |-> config ]

NoSnapshot ==
  [ model |-> None, usage |-> ZeroUsage, llm |-> FALSE, chat |-> NoChat, context |-> << >>,
    kind |-> None, config |-> [ unset |-> TRUE ] ]

NoOp == [ name |-> "none", arg |-> None, returned |-> FALSE, before |-> NoSnapshot ]

\* send_message, stream_message or a resumption of its generator
CallOp == [ name |-> "call", arg |-> None, returned |-> FALSE, before |-> NoSnapshot ]

ProvIdle(k) ==
  /\ kind = k
  /\ model = DefaultModel(k)
  /\ chat = NoChat
  /\ usage = ZeroUsage
  /\ gen = NoGen
  /\ lastCall = NoCall
  /\ tally = [ issued |-> 0, calls |-> 0, tokens_input |-> 0, tokens_output |-> 0, tokens_total |-> 0 ]
  /\ llm = FALSE
  /\ lastOp = NoOp

\* no stream_message generator is suspended
Quiet == IF gen = NoGen THEN TRUE ELSE gen[1].phase \in { "done", "raised" }

Counted(t, u) ==
  [ t EXCEPT !.calls = @ + 1,
             !.tokens_input = @ + u.tokens_input,
             !.tokens_output = @ + u.tokens_output,
             !.tokens_total = @ + u.tokens_total ]

Request_CarryOver(a) ==
  IF Stateful(kind)
  THEN LET history == BuildHistory(a.context, IsGemma(model), a.system_prompt)
           inject == ShouldInjectSystem(IsGemma(model), a.system_prompt, chat, history)
       IN  [ session |-> << ChatForCall(chat, history, NewChat(model, a.system_prompt, history)) >>,
             sent |-> GeminiUserMessage(a.message, a.system_prompt, a.memories, inject),
             messages |-> << >> ]
  ELSE [ session |-> NoChat,
         sent |-> a.message,
         messages |-> lastCall.messages \o BuildMessages(a.message, a.context, a.system_prompt, a.memories) ]

\* what the adapter builds and which session it talks to, for one call
Request(a) ==
  IF Stateful(kind)
  THEN LET history == BuildHistory(a.context, IsGemma(model), a.system_prompt)
           inject == ShouldInjectSystem(IsGemma(model), a.system_prompt, chat, history)
       IN  [ session |-> << ChatForCall(chat, history, NewChat(model, a.system_prompt, history)) >>,
             sent |-> GeminiUserMessage(a.message, a.system_prompt, a.memories, inject),
             messages |-> << >> ]
  ELSE [ session |-> NoChat,
         sent |-> a.message,
         messages |-> BuildMessages(a.message, a.context, a.system_prompt, a.memories) ]

CallRecord(op, a, r, outcome) ==
  [ op |-> op, args |-> a, model |-> model, chatBefore |-> chat, session |-> r.session,
    sent |-> r.sent, messages |-> r.messages, outcome |-> outcome,
    raw |-> "none", reported |-> FALSE, returned |-> ZeroUsage ]

\* the exceptions _ensure_loaded raises when the model cannot be loaded
LoadFailures == { "ImportError", "FileNotFoundError" }

\* what loading the local model would give, where the backend says so
LoadOf(b) == IF "load" \in DOMAIN b THEN b.load ELSE "ok"

\* self._ensure_loaded(), the first statement of the local GGUF adapter's
\* send_message and stream_message, outside their try: "ok" or the exception
EnsureLoaded(k, loaded, load) == IF k = "gguf" /\ ~loaded THEN load ELSE "ok"

\* send_message(message, context, system_prompt, memories); b is what the
\* backend does with the request
SendMessage(a, b) ==
  /\ Quiet
  /\ tally.issued < MaxCalls
  /\ LET r == Request(a)
         u == CallUsage(kind, b.meta)
         load == EnsureLoaded(kind, llm, LoadOf(b))
         outcome == IF load # "ok" THEN "Unclassified"
                    ELSE IF b.result = "ok" THEN "ok"
                    ELSE Classify(kind, "send", b.result)
     IN  /\ lastCall' = [ CallRecord("send", a, r, outcome) EXCEPT
                            !.raw = IF load # "ok" THEN load ELSE b.result,
                            !.messages = IF load # "ok" THEN << >> ELSE @,
                            !.reported = (outcome = "ok" /\ b.meta # NoMeta),
                            !.returned = IF outcome = "ok" THEN u ELSE ZeroUsage ]
         /\ llm' = (llm \/ (kind = "gguf" /\ load = "ok"))
         /\ IF load # "ok"
            THEN /\ tally' = [ tally EXCEPT !.issued = @ + 1 ]
                 /\ UNCHANGED << chat, usage >>
            ELSE IF b.result = "ok"
            THEN /\ chat' = IF Stateful(kind) THEN << Recorded(r.session[1], r.sent, b.reply) >> ELSE chat
                 /\ usage' = UpdateSessionUsage(usage, u)
                 /\ tally' = [ Counted(tally, u) EXCEPT !.issued = @ + 1 ]
            ELSE /\ chat' = IF Stateful(kind) THEN r.session ELSE chat
                 /\ usage' = usage
                 /\ tally' = IF outcome = "ContentBlocked"
                             THEN [ Counted(tally, ZeroUsage) EXCEPT !.issued = @ + 1 ]
                             ELSE [ tally EXCEPT !.issued = @ + 1 ]
  /\ gen' = NoGen
  /\ lastOp' = CallOp
  /\ UNCHANGED << kind, model >>

\* the state of a stream_message generator after its n-th resumption
Streamed(g, res) ==
  /\ gen' = << IF res.gen.phase = "yielded" THEN res.gen ELSE [ res.gen EXCEPT !.chunks = << >> ] >>
  /\ usage' = res.usage
  /\ IF res.gen.phase = "done"
     THEN /\ tally' = [ Counted(tally, CallUsage(kind, LastMeta(g.chunks))) EXCEPT !.issued = tally.issued + g.fresh ]
          /\ chat' = IF Stateful(kind)
                     THEN << Recorded(g.session[1], g.sent, StreamText(g.chunks)) >>
                     ELSE chat
     ELSE /\ tally' = [ tally EXCEPT !.issued = @ + g.fresh ]
          /\ chat' = IF Stateful(kind) THEN g.session ELSE chat

\* stream_message(...) and the first pull of its generator: the body runs
\* from the top to its first yield; b is what the backend will stream
StreamMessage(a, b) ==
  /\ Quiet
  /\ tally.issued < MaxCalls
  /\ LET r == Request(a)
         load == EnsureLoaded(kind, llm, LoadOf(b))
         g == [ chunks |-> IF load = "ok" THEN b.chunks ELSE << >>,
                err |-> IF load = "ok" THEN b.err ELSE load,
                pos |-> 1, phase |-> "new",
                session |-> r.session, sent |-> r.sent,
                requestsAtStart |-> usage.requests_count, fresh |-> 1 ]
         res == Resume(kind, g, usage)
     IN  /\ Streamed(g, [ res EXCEPT !.gen.fresh = 0 ])
         /\ lastCall' = [ CallRecord("stream", a, r, "streaming") EXCEPT
                            !.messages = IF load # "ok" THEN << >> ELSE @ ]
         /\ llm' = (llm \/ (kind = "gguf" /\ load = "ok"))
  /\ lastOp' = CallOp
  /\ UNCHANGED << kind, model >>

\* the consumer pulls the next fragment
StreamPull ==
  /\ gen # NoGen
  /\ gen[1].phase = "yielded"
  /\ Streamed(gen[1], Resume(kind, gen[1], usage))
  /\ lastOp' = CallOp
  /\ UNCHANGED << kind, model, lastCall, llm >>

AfterSetModel_Accept(k, m, exists, s) == [ ok |-> TRUE, model |-> m, llm |-> s.llm ]

\* set_model(m) of each adapter: what it returns and the model and loaded
\* model after it; exists is Path(m).exists(), which the local GGUF adapter asks
AfterSetModel(k, m, exists, s) ==
  IF k \in { "gemini", "groq" }
  THEN IF m \in AvailableModels(k)
       THEN [ ok |-> TRUE, model |-> m, llm |-> s.llm ]
       ELSE [ ok |-> FALSE, model |-> s.model, llm |-> s.llm ]
  ELSE IF k = "ollama"
  THEN [ ok |-> TRUE, model |-> m, llm |-> s.llm ]
  ELSE IF exists
       THEN [ ok |-> TRUE, model |-> m, llm |-> FALSE ]
       ELSE [ ok |-> FALSE, model |-> s.model, llm |-> s.llm ]

ChatAfterSetModel_Keep(k, ok, chatNow) == chatNow

\* self._chat after set_model returned ok
ChatAfterSetModel(k, ok, chatNow) ==
  IF k \in { "gemini", "groq" } /\ ok THEN NoChat ELSE chatNow

\* set_model(m)
SetModelStep(m, exists) ==
  /\ Quiet
  /\ LET r == AfterSetModel(kind, m, exists, Snapshot)
     IN  /\ model' = r.model
         /\ llm' = r.llm
         /\ chat' = ChatAfterSetModel(kind, r.ok, chat)
  /\ UNCHANGED << kind, usage, gen, lastCall, tally >>

\* set_model(m), with what it returned and found on record
SetModel(m) ==
  \E exists \in BOOLEAN :
    /\ SetModelStep(m, exists)
    /\ lastOp' = [ name |-> "set_model", arg |-> m,
                   returned |-> AfterSetModel(kind, m, exists, Snapshot).ok, before |-> Snapshot ]

AfterResetChat_Keep(k, chatNow) == chatNow

\* self._chat after reset_chat()
AfterResetChat(k, chatNow) == IF Stateful(k) THEN NoChat ELSE chatNow

\* reset_chat()
ResetChatStep ==
  /\ Quiet
  /\ chat' = AfterResetChat(kind, chat)
  /\ UNCHANGED << kind, model, usage, gen, lastCall, tally, llm >>

\* reset_chat(), with what it found on record
ResetChat ==
  /\ ResetChatStep
  /\ lastOp' = [ name |-> "reset_chat", arg |-> None, returned |-> FALSE, before |-> Snapshot ]

\* LocalGGUFProvider.unload(): `del self._llm; self._llm = None`
Unload ==
  /\ Quiet
  /\ kind = "gguf"
  /\ llm' = FALSE
  /\ lastOp' = [ name |-> "unload", arg |-> None, returned |-> FALSE, before |-> Snapshot ]
  /\ UNCHANGED << kind, model, chat, usage, gen, lastCall, tally >>

\* LocalGGUFProvider.validate_api_key(): _ensure_loaded() in a try, True if
\* it loaded or was loaded, False if it raised; load is what loading gives
ValidateApiKey(load) ==
  /\ Quiet
  /\ kind = "gguf"
  /\ llm' = (llm \/ EnsureLoaded(kind, llm, load) = "ok")
  /\ lastOp' = [ name |-> "validate_api_key", arg |-> None,
                 returned |-> (EnsureLoaded(kind, llm, load) = "ok"), before |-> Snapshot ]
  /\ UNCHANGED << kind, model, chat, usage, gen, lastCall, tally >>

\* get_session_usage()
GetSessionUsage == usage

ResetUsage_KeepCount(u) == [ ZeroUsage EXCEPT !.requests_count = u.requests_count ]

\* self._session_usage = UsageStats()
ResetUsage(u) == ZeroUsage

\* reset_session_usage()
ResetSessionUsage ==
  /\ Quiet
  /\ usage' = ResetUsage(usage)
  /\ tally' = [ tally EXCEPT !.calls = 0, !.tokens_input = 0, !.tokens_output = 0, !.tokens_total = 0 ]
  /\ lastOp' = [ name |-> "reset_session_usage", arg |-> None, returned |-> FALSE, before |-> Snapshot ]
  /\ UNCHANGED << kind, model, chat, gen, lastCall, llm >>

\* inputs
Contexts ==
  { Concat([ i \in 1..n |-> << Msg("user", << "u" >>), Msg("assistant", << "a" >>) >> ]) : n \in 0..MaxPairs }

CallArgs ==
  [ message : { << "q" >> }, context : Contexts,
    system_prompt : { << >>, << "S" >> }, memories : { << >>, << "M" >> } ]

\* what the backend may answer
Meta1 == << [ i |-> 1, o |-> 2, t |-> 3 ] >>
Meta2 == << [ i |-> 1, o |-> 1, t |-> 3 ] >>

TextChunk == [ has |-> TRUE, text |-> << "a" >>, meta |-> NoMeta ]

\* backends of the request-building specification: one shape per outcome
SendBackends ==
  { [ result |-> "ok", meta |-> Meta1, reply |-> << "r" >> ],
    [ result |-> "SAFETY", meta |-> NoMeta, reply |-> << >> ],
    [ result |-> "OTHER", meta |-> NoMeta, reply |-> << >> ] }

StreamBackends ==
  { [ chunks |-> << TextChunk >>, err |-> "none" ],
    [ chunks |-> << TextChunk >>, err |-> "OTHER" ],
    [ chunks |-> << >>, err |-> "RATE_LIMIT" ] }

\* backends of the usage-accounting specification: every placement of usage
\* metadata over the chunks of a stream, calls made with a message only
UsageSendBackends ==
  [ result : { "ok" }, meta : { NoMeta, Meta1, Meta2 }, reply : { << "r" >> } ]
    \cup [ result : { "RATE_LIMIT", "SAFETY" }, meta : { NoMeta }, reply : { << >> } ]

UsageChunks ==
  { TextChunk,
    [ has |-> TRUE, text |-> << "a" >>, meta |-> Meta1 ],
    [ has |-> FALSE, text |-> << >>, meta |-> Meta1 ],
    [ has |-> TRUE, text |-> << >>, meta |-> NoMeta ] }

UsageStreamBackends == [ chunks : SeqsUpTo(UsageChunks, MaxChunks), err : { "none", "RATE_LIMIT" } ]

\* models asked for, calls and backends of the administration specification
AdminModels == { "gemma-3-27b", "groq/compound", "llama3" }

AdminArgs ==
  [ message : { << "q" >> }, context : Contexts, system_prompt : { << >>, << "S" >> }, memories : { << >> } ]

AdminSendBackends ==
  { [ result |-> "ok", meta |-> Meta1, reply |-> << "r" >> ],
    [ result |-> "OTHER", meta |-> NoMeta, reply |-> << >> ] }

AdminStreamBackends == { [ chunks |-> << TextChunk >>, err |-> "none" ] }

\* backends of the cancellation specification: a stream whose first chunk
\* carries usage metadata, and a stream that fails after its first chunk
CancelBackends ==
  { [ chunks |-> << [ has |-> TRUE, text |-> << "a" >>, meta |-> Meta1 ], TextChunk >>, err |-> "none" ],
    [ chunks |-> << TextChunk >>, err |-> "OTHER" ] }

\* backends of the failure specification: every backend error, and every
\* result of loading the local model
FailSendBackends ==
  [ result : { "ok" }, meta : { Meta1 }, reply : { << "r" >> }, load : LoadFailures \cup { "ok" } ]
    \cup [ result : RawErrors, meta : { NoMeta }, reply : { << >> }, load : LoadFailures \cup { "ok" } ]

FailStreamBackends ==
  [ chunks : { << >>, << TextChunk >> }, err : RawErrors \cup { "none" }, load : LoadFailures \cup { "ok" } ]

\* ---------------------------------------------------- provider, claims
SessionCall == Stateful(kind) /\ lastCall.op # "none"

\* the history list the adapter built from the history parameter of the last call
LastHistory == BuildHistory(lastCall.args.context, IsGemma(lastCall.model), lastCall.args.system_prompt)

\* the last call found a session and was given a non-empty history
Reused == lastCall.chatBefore # NoChat /\ lastCall.args.context # << >>

\* C1: in every call of the session-backed adapter the prior turns the
\* backend holds come from exactly one place: a reused session keeps exactly
\* the turns it held (the history parameter is not replayed into it), a new
\* session holds exactly the turns built from the history parameter.
C1_OneHistoryRoute ==
  SessionCall =>
    /\ Reused => lastCall.session = lastCall.chatBefore
    /\ ~Reused => lastCall.session[1].history = LastHistory
    /\ (lastCall.chatBefore # NoChat /\ lastCall.chatBefore[1].history # << >> /\ LastHistory # << >>) =>
         lastCall.session[1].history # lastCall.chatBefore[1].history \o LastHistory

C1_Witness ==
  /\ SessionCall
  /\ Reused
  /\ lastCall.chatBefore[1].history # << >>
  /\ lastCall.outcome = "ok"
  /\ chat = << Recorded(lastCall.chatBefore[1], lastCall.sent, << "r" >>) >>

C1_WitnessSeeded ==
  /\ SessionCall
  /\ ~Reused
  /\ lastCall.chatBefore # NoChat
  /\ lastCall.chatBefore[1].history # << >>
  /\ lastCall.session[1].history = << >>
  /\ lastCall.op = "stream"

\* C2: a call with a non-empty history and no session creates a session that
\* holds one turn per history turn, in the same order, user as user and
\* assistant as model, each with the caller's text (the first one preceded by
\* the system prompt on a Gemma model); the new message comes after them.
C2_HistoryReplayed ==
  (SessionCall /\ lastCall.chatBefore = NoChat /\ lastCall.args.context # << >>) =>
    LET ctx == lastCall.args.context
        sys == lastCall.args.system_prompt
        h == lastCall.session[1].history
    IN  /\ Len(h) = Len(ctx)
        /\ \A i \in 1..Len(ctx) :
             /\ h[i].role = (IF ctx[i].role = "user" THEN "user" ELSE "model")
             /\ h[i].text = (IF i = 1 /\ IsGemma(lastCall.model) /\ sys # << >> /\ ctx[i].role = "user"
                             THEN sys \o Sep \o ctx[i].content
                             ELSE ctx[i].content)
        /\ (chat # NoChat /\ (lastCall.outcome = "ok" \/ (gen # NoGen /\ lastCall.op = "stream" /\ gen[1].phase = "done"))) =>
             /\ Len(chat[1].history) = Len(ctx) + 2
             /\ SubSeq(chat[1].history, 1, Len(ctx)) = h
             /\ chat[1].history[Len(ctx) + 1] = Turn("user", lastCall.sent)

C2_Witness ==
  /\ SessionCall
  /\ lastCall.chatBefore = NoChat
  /\ Len(lastCall.args.context) = 2
  /\ lastCall.outcome = "ok"
  /\ Len(chat[1].history) = 4
  /\ chat[1].history[2].role = "model"

\* C3 (as claimed): the accumulator counts every completed call since the
\* last usage reset and sums their per-call usage.
C3_UsageSumsCalls ==
  Quiet =>
    /\ usage.requests_count = tally.calls
    /\ usage.tokens_input = tally.tokens_input
    /\ usage.tokens_output = tally.tokens_output
    /\ usage.tokens_total = tally.tokens_total

\* C4 (as claimed): a streaming call that ran to completion has updated the
\* accumulator exactly once.
C4_StreamCountsOnce ==
  (gen # NoGen /\ gen[1].phase = "done") => usage.requests_count = gen[1].requestsAtStart + 1

\* ------------------------------------------------- application, helpers
\* MAX_CONTEXT_MESSAGES
MaxContextMessages == 20

\* the keyword parameters of config.get_system_prompt
SystemPromptParams == { "language", "user_name" }

\* the keywords _send_to_ai passes to get_system_prompt
SystemPromptKeywords == { "language", "user_name", "provider" }

\* a Python call with keywords the function does not declare raises TypeError
Accepts(params, keywords) == keywords \subseteq params

\* the text get_system_prompt returns
SystemPrompt == << "SYSTEM_PROMPT" >>

\* ErrorPanel: print_error(message, suggestion=...)
ErrorPanel(message, suggestion) ==
  [ kind |-> "error", message |-> message, suggestion |-> suggestion ]

\* print_system_message(content, style)
SystemMessage(content) ==
  [ kind |-> "system", message |-> content, suggestion |-> None ]

\* print_user_message / print_kleos_user_message
UserPanel == [ kind |-> "user", message |-> << >>, suggestion |-> None ]

NoProviderError ==
  ErrorPanel("No AI model selected.", "Use /model to select a provider and model to start chatting.")

\* str(e) of the ValueError raised by unpacking a str into two names
UnpackError(v) ==
  IF Len(v) < 2 THEN "not enough values to unpack" ELSE "too many values to unpack"

\* self.context = self.context[-max_context:]
Trim(ctx, max_context) ==
  IF Len(ctx) > max_context THEN SubSeq(ctx, Len(ctx) - max_context + 1, Len(ctx)) ELSE ctx

Whitespace == { " ", "  " }

\* str.lower(), on the tokens typed lines are made of
Lower(tok) ==
  CASE tok = "La" -> "la"
    [] tok = "Casa" -> "casa"
    [] tok = "Hi" -> "hi"
    [] OTHER -> tok

LowerText(t) == [ i \in 1..Len(t) |-> Lower(t[i]) ]

\* str.split(): the runs of non-whitespace
SplitWords(t) == SelectSeq(t, LAMBDA tok : tok \notin Whitespace)

\* " ".join(args)
RECURSIVE JoinWords(_)
JoinWords(ws) ==
  IF Len(ws) <= 1 THEN ws ELSE << ws[1], " " >> \o JoinWords(Tail(ws))

\* lang_keywords of detect_lang, the entries among the words typed here
LangKeywords(l) ==
  CASE l = "it" -> { "la", "casa", "che" }
    [] l = "es" -> { "la", "que" }
    [] l = "fr" -> { "la", "que", "a" }
    [] l = "de" -> { "der" }

\* the words typed here that \b\w{2,}\b does not match
OneLetterWords == { "a" }

\* iteration order of the lang_keywords dict
LangOrder == << "it", "es", "fr", "de" >>

\* detect_lang: max(scores, key=scores.get) is the first language of the
\* dict with the highest score; English unless that score is positive
DetectLang(text) ==
  LET words == { text[i] : i \in 1..Len(text) } \ (Whitespace \cup OneLetterWords)
      score(l) == Cardinality(words \cap LangKeywords(l))
      best == CHOOSE i \in 1..Len(LangOrder) :
                /\ \A j \in 1..Len(LangOrder) : score(LangOrder[j]) <= score(LangOrder[i])
                /\ \A j \in 1..(i - 1) : score(LangOrder[j]) < score(LangOrder[i])
  IN  IF score(LangOrder[best]) > 0 THEN LangOrder[best] ELSE "en"

\* lang_names
LangName(l) ==
  CASE l = "it" -> "Italian"
    [] l = "es" -> "Spanish"
    [] l = "fr" -> "French"
    [] l = "de" -> "German"
    [] OTHER -> "English"

\* KLEOS_ANALYST_PROMPT.replace(placeholder, original_prompt)
AnalystPrompt(p) == << "KLEOS_ANALYST_PROMPT[:head]" >> \o p \o << "KLEOS_ANALYST_PROMPT[tail:]" >>

AnalystSystem(l) == << "prompt_analyst_system", " Respond ONLY in ", LangName(l), "." >>

MasterSystem(l) == << "prompt_master_system", " Respond ONLY in ", LangName(l), "." >>

ThinkerSystem == << "KLEOS_THINKER_PROMPT" >>

\* current_context after the user's answer
UserDetails(answer) ==
  IF answer = << >> THEN << >> ELSE << "User details: " >> \o answer

\* current_context += f"\nUser feedback for modification: {feedback}"
WithFeedback(cc, feedback) == cc \o << "\nUser feedback for modification: " >> \o feedback

\* refinement_input
RefinementInput(p, cc, l) ==
  << "Original prompt: '" >> \o p \o << "'\n" >> \o cc
    \o << "\n\n", "Based on the details, generate the optimized MASTER PROMPT in ",
          LangName(l), ". Output ONLY the prompt content." >>

\* the fragments stream_message yields for a backend stream, and how it ends
RECURSIVE StreamFrags(_, _)
StreamFrags(k, chunks) ==
  IF chunks = << >> THEN << >>
  ELSE (IF Yields(k, Head(chunks)) THEN << Head(chunks).text >> ELSE << >>)
         \o StreamFrags(k, Tail(chunks))

StreamOf(k, b) ==
  [ frags |-> StreamFrags(k, b.chunks),
    err |-> IF b.err = "none" THEN "none" ELSE Classify(k, "stream", b.err) ]

NoRequest ==
  [ kind |-> "none", mode |-> "none", message |-> << >>, backend |-> [ chunks |-> << >>, err |-> "none" ],
    issued0 |-> 0 ]

NoKleos ==
  [ original_prompt |-> << >>, lang |-> "en", analyst |-> << >>, current_context |-> << >>,
    final_prompt |-> << >>, drafts |-> 0, state |-> "none", path |-> << >>, feedback |-> << >>,
    raised |-> FALSE, details |-> << >>, feedbacks |-> << >>, drafted |-> << >> ]

\* ------------------------------------------------- application, actions
AppIdle(hp, c) ==
  /\ has_provider = hp
  /\ config = c
  /\ context = << >>
  /\ apc = "input"
  /\ req = NoRequest
  /\ kleos = NoKleos
  /\ shown = << >>
  /\ log = << >>
  /\ escaped = None
  /\ inputs = 0

\* `lang = detect_lang(original_prompt)` on its own
DetectStep(text) ==
  /\ apc = "input"
  /\ kleos' = [ NoKleos EXCEPT !.original_prompt = text, !.lang = DetectLang(text) ]
  /\ UNCHANGED << has_provider, config, context, apc, req, shown, log, escaped, inputs, ovars, cvars, pvars >>

\* Config(): the defaults, with show_stats as the config file may carry it
DefaultConfig == [ auto_save_conversations |-> TRUE, show_stats |-> "unset" ]

Configs == { DefaultConfig, [ auto_save_conversations |-> FALSE, show_stats |-> "off" ] }

\* the adapters _create_provider builds
AppKinds == { "gemini", "groq", "ollama" }

\* `stream = self.provider.stream_message(...)` handed to stream_ai_message,
\* up to the first await of its loop: the generator body has not run yet
StartStream(a, b, thinking) ==
  /\ OrchStart(StreamOf(kind, b), thinking)
  /\ LET r == Request(a)
     IN  /\ gen' = << [ chunks |-> b.chunks, err |-> b.err, pos |-> 1, phase |-> "new",
                        session |-> r.session, sent |-> r.sent,
                        requestsAtStart |-> usage.requests_count, fresh |-> 1 ] >>
         /\ lastCall' = CallRecord("stream", a, r, "streaming")
  /\ lastOp' = CallOp
  /\ UNCHANGED << kind, model, chat, usage, tally, llm >>

\* the loop of stream_ai_message resumes the provider's generator
AppPull ==
  /\ apc = "streaming"
  /\ opc = "next"
  /\ IF pulled < Len(stream.frags) THEN OrchChunkStep
     ELSE IF stream.err = "none" THEN OrchExhaustedStep
     ELSE OrchExceptionStep
  /\ Streamed(gen[1], [ Resume(kind, gen[1], usage) EXCEPT !.gen.fresh = 0 ])
  /\ UNCHANGED << kind, model, lastCall, llm, lastOp, cvars, avars >>

AppSleep ==
  /\ apc = "streaming"
  /\ OrchSleepStep
  /\ UNCHANGED << cvars, pvars, avars >>

AppFinal ==
  /\ apc = "streaming"
  /\ OrchFinalStep
  /\ UNCHANGED << cvars, pvars, avars >>

\* a handler hands provider.stream_message(...) to stream_ai_message and
\* awaits it (the try body of _send_to_ai)
StreamRequest(a, b) ==
  /\ apc = "input"
  /\ tally.issued < MaxCalls
  /\ StartStream(a, b, FALSE)
  /\ apc' = "streaming"
  /\ req' = [ kind |-> "stream", mode |-> "stream", message |-> a.message, backend |-> b,
              issued0 |-> tally.issued ]
  /\ UNCHANGED << has_provider, config, context, kleos, shown, log, escaped, inputs, cvars >>

\* `except KeyboardInterrupt: cancel_event.set()`
AppCancel ==
  /\ apc = "streaming"
  /\ SetCancelStep
  /\ UNCHANGED << cvars, pvars, avars >>

\* stream_ai_message has returned and the handler is over: the generator is
\* no longer referenced
StreamReturn ==
  /\ apc = "streaming"
  /\ opc = "returned"
  /\ req.mode = "stream"
  /\ OrchDiscard
  /\ apc' = "input"
  /\ lastOp' = [ name |-> "returned", arg |-> None, returned |-> FALSE, before |-> Snapshot ]
  /\ UNCHANGED << kind, model, chat, usage, gen, lastCall, tally, llm,
                  has_provider, config, context, req, kleos, shown, log, escaped, inputs, cvars >>

CloseUpdate_Finally(k, g, u) == AfterChunk(k, u, g.chunks[g.pos])

\* what closing a generator suspended at its yield does to the usage
\* accumulator: GeneratorExit is raised at the yield, `except Exception` does
\* not catch it and no finally clause exists, so the rest of the body is skipped
CloseUpdate(k, g, u) == u

\* the event loop finalises the abandoned generator (aclose)
GenClose ==
  /\ apc = "input"
  /\ gen # NoGen
  /\ gen[1].phase = "yielded"
  /\ gen' = << [ gen[1] EXCEPT !.phase = "closed" ] >>
  /\ usage' = CloseUpdate(kind, gen[1], usage)
  /\ UNCHANGED << kind, model, chat, lastCall, tally, llm, lastOp, ovars, cvars, avars >>

\* _send_to_ai(message) up to its await; mem is what the memory manager
\* finds for the message, b what the backend would stream
SendToAI(message, mem, b) ==
  /\ apc = "input"
  /\ inputs < MaxInputs
  /\ inputs' = inputs + 1
  /\ req' = [ kind |-> "ordinary", mode |-> "ordinary", message |-> message, backend |-> b,
              issued0 |-> tally.issued ]
  /\ IF ~has_provider
     THEN /\ shown' = << NoProviderError >>
          /\ UNCHANGED << apc, escaped, ovars, pvars >>
     ELSE IF ~Accepts(SystemPromptParams, SystemPromptKeywords)
     THEN /\ shown' = << UserPanel >>
          /\ apc' = "crashed"
          /\ escaped' = "TypeError"
          /\ UNCHANGED << ovars, pvars >>
     ELSE /\ shown' = << UserPanel >>
          /\ StartStream([ message |-> message, context |-> context,
                           system_prompt |-> SystemPrompt, memories |-> mem ], b, FALSE)
          /\ apc' = "streaming"
          /\ UNCHANGED escaped
  /\ UNCHANGED << has_provider, config, context, kleos, log, cvars >>

\* how self.db.add_conversation may end for a turn pair: it is called only
\* for non-empty content with auto_save_conversations on, and the INSERT or
\* the commit may raise
StoreOutcomes(full) ==
  IF full # << >> /\ config.auto_save_conversations THEN BOOLEAN ELSE { TRUE }

\* where control goes after the call: an exception of add_conversation is
\* caught neither by the handler nor by the loop of run
AfterStore(stored) ==
  IF stored
  THEN /\ apc' = "input"
       /\ UNCHANGED escaped
  ELSE /\ apc' = "crashed"
       /\ escaped' = "sqlite3.Error"

\* _send_to_ai from `full_content, self.last_ttft = await stream_task` on
SendToAIReturn ==
  LET u == UnpackPair(ret)
  IN  /\ IF ~u.ok
         THEN /\ shown' = Append(shown, ErrorPanel(<< UnpackError(ret) >>, "Check connection and try again."))
              /\ apc' = "input"
              /\ UNCHANGED << context, log, escaped >>
         ELSE IF u.first # << >> /\ config.show_stats # "off"
         THEN /\ apc' = "crashed"
              /\ escaped' = "AttributeError"
              /\ UNCHANGED << shown, context, log >>
         ELSE \E stored \in StoreOutcomes(u.first) :
              /\ context' = IF u.first # << >>
                            THEN Trim(context \o << Msg("user", req.message), Msg("assistant", u.first) >>,
                                      MaxContextMessages * 2)
                            ELSE context
              /\ log' = IF u.first # << >> /\ config.auto_save_conversations /\ stored
                        THEN Append(log, [ user_message |-> req.message, ai_response |-> u.first ])
                        ELSE log
              /\ AfterStore(stored)
              /\ UNCHANGED shown
      /\ UNCHANGED << req, kleos >>

\* /reset
ResetCommand ==
  /\ apc = "input"
  /\ inputs < MaxInputs
  /\ inputs' = inputs + 1
  /\ req' = [ NoRequest EXCEPT !.kind = "reset", !.issued0 = tally.issued ]
  /\ context' = << >>
  /\ IF has_provider
     THEN /\ usage' = ResetUsage(usage)
          /\ tally' = [ tally EXCEPT !.calls = 0, !.tokens_input = 0, !.tokens_output = 0, !.tokens_total = 0 ]
          /\ chat' = AfterResetChat(kind, chat)
          /\ lastOp' = [ name |-> "reset_chat", arg |-> None, returned |-> FALSE,
                         before |-> [ Snapshot EXCEPT !.usage = ResetUsage(usage), !.context = << >> ] ]
     ELSE UNCHANGED << usage, tally, chat, lastOp >>
  /\ shown' = << SystemMessage(<< "Session reset." >>) >>
  /\ UNCHANGED << kind, model, gen, lastCall, llm, has_provider, config, apc, kleos, log, escaped, ovars, cvars >>

\* the providers /model offers, by the name config.default_provider holds
ProviderNames == { "GOOGLE", "groq", "LOCAL" }

\* _create_provider: the adapter built for a provider name
KindOf(p) ==
  CASE p = "groq" -> "groq"
    [] p = "LOCAL" -> "ollama"
    [] OTHER -> "gemini"

\* AVAILABLE_MODELS[provider], two of each, and the models Ollama reports
ConfigModels(p) ==
  CASE p = "GOOGLE" -> { "gemini-2.5-flash", "gemma-3-27b" }
    [] p = "groq" -> { "groq/compound", "llama-3.3-70b-versatile" }
    [] OTHER -> { "llama3" }

\* the Config of a session on adapter k, with the API keys the key store holds
ModelConfig(k) ==
  [ auto_save_conversations |-> TRUE, show_stats |-> "unset",
    default_provider |-> CHOOSE p \in ProviderNames : KindOf(p) = k,
    default_model |-> DefaultModel(k),
    saved_keys |-> { p \in ProviderNames \ { "LOCAL" } : KindOf(p) = k } ]

\* what creating and validating the adapter of a provider can give: the
\* LOCAL adapter is not validated
SwitchOutcomes(p) == IF p = "LOCAL" THEN { "ok", "raises" } ELSE { "ok", "invalid", "raises" }

SwitchFails_CreateOnly(new_provider, outcome) == outcome = "raises"

\* STEP 4 does not switch: _create_provider or validate_api_key raised, or
\* validate_api_key (not asked of LOCAL) returned False
SwitchFails(new_provider, outcome) ==
  \/ outcome = "raises"
  \/ new_provider # "LOCAL" /\ outcome = "invalid"

\* /model: new_provider and selected_model are the menu choices, typed is the
\* key entered when the store has none for the provider, outcome is what
\* creating and validating the new adapter gives
ModelCommand(new_provider, typed, selected_model, outcome) ==
  /\ apc = "input"
  /\ inputs < MaxInputs
  /\ inputs' = inputs + 1
  /\ req' = [ NoRequest EXCEPT !.kind = "model", !.issued0 = tally.issued ]
  /\ LET asked == new_provider # "LOCAL" /\ new_provider \notin config.saved_keys
         provider_changed == new_provider # config.default_provider
         keys == IF asked THEN config.saved_keys \cup { new_provider } ELSE config.saved_keys
         op == [ name |-> "model_command", arg |-> new_provider, returned |-> outcome = "ok",
                 before |-> Snapshot ]
     IN  IF asked /\ typed = "short"
         THEN /\ shown' = << ErrorPanel(<< "Invalid API key. Aborting." >>, None) >>
              /\ lastOp' = [ op EXCEPT !.returned = FALSE ]
              /\ UNCHANGED << kind, model, chat, usage, gen, lastCall, tally, llm, has_provider, config >>
         ELSE IF provider_changed /\ SwitchFails(new_provider, outcome)
         THEN /\ shown' = << IF outcome = "invalid"
                              THEN ErrorPanel(<< "Invalid API key." >>, "Check your API key and try again.")
                              ELSE ErrorPanel(<< "Failed to switch provider: ", outcome >>, None) >>
              /\ config' = [ config EXCEPT !.saved_keys = keys ]
              /\ lastOp' = op
              /\ UNCHANGED << kind, model, chat, usage, gen, lastCall, tally, llm, has_provider >>
         ELSE IF provider_changed
         THEN /\ kind' = KindOf(new_provider)
              /\ model' = selected_model
              /\ chat' = NoChat
              /\ usage' = ZeroUsage
              /\ gen' = NoGen
              /\ lastCall' = NoCall
              /\ llm' = FALSE
              /\ tally' = [ tally EXCEPT !.calls = 0, !.tokens_input = 0, !.tokens_output = 0, !.tokens_total = 0 ]
              /\ has_provider' = TRUE
              /\ config' = [ config EXCEPT !.default_provider = new_provider, !.default_model = selected_model,
                                           !.saved_keys = keys ]
              /\ shown' = << SystemMessage(<< "Provider: ", new_provider, "Model: ", selected_model >>) >>
              /\ lastOp' = op
         ELSE /\ IF has_provider
                 THEN LET r == AfterSetModel(kind, selected_model, TRUE, Snapshot)
                      IN  /\ model' = r.model
                          /\ llm' = r.llm
                          /\ chat' = ChatAfterSetModel(kind, r.ok, chat)
                 ELSE UNCHANGED << model, llm, chat >>
              /\ config' = [ config EXCEPT !.default_model = selected_model, !.saved_keys = keys ]
              /\ shown' = << SystemMessage(<< "Provider: ", new_provider, "Model: ", selected_model >>) >>
              /\ lastOp' = op
              /\ UNCHANGED << kind, usage, gen, lastCall, tally, has_provider >>
  /\ UNCHANGED << context, apc, kleos, log, escaped, ovars, cvars >>

\* the Analyzing call of _handle_kleos_mode
AnalystArgs(p, l) ==
  [ message |-> AnalystPrompt(p), context |-> << >>, system_prompt |-> AnalystSystem(l), memories |-> << >> ]

\* a Drafting call
DraftArgs(p, cc, l) ==
  [ message |-> RefinementInput(p, cc, l), context |-> << >>, system_prompt |-> MasterSystem(l), memories |-> << >> ]

ThinkerArgs_WithContext(final_prompt, mem) ==
  [ message |-> final_prompt, context |-> context, system_prompt |-> ThinkerSystem, memories |-> mem ]

\* the Thinking call
ThinkerArgs(final_prompt, mem) ==
  [ message |-> final_prompt, context |-> << >>, system_prompt |-> ThinkerSystem, memories |-> mem ]

\* `/kleos <prompt>`: _handle_command and _handle_kleos_mode up to the
\* await of the Analyzing call
KleosCommand(line, b) ==
  /\ apc = "input"
  /\ inputs < MaxInputs
  /\ inputs' = inputs + 1
  /\ LET parts == SplitWords(LowerText(line))
         prompt == JoinWords(Tail(parts))
         lang == DetectLang(prompt)
     IN  /\ req' = [ kind |-> "kleos", mode |-> IF prompt # << >> /\ has_provider THEN "analyst" ELSE "none",
                     message |-> line, backend |-> b, issued0 |-> tally.issued ]
         /\ IF prompt = << >>
            THEN /\ shown' = << SystemMessage(<< "Usage: /kleos <prompt>" >>) >>
                 /\ UNCHANGED << apc, kleos, ovars, pvars >>
            ELSE IF ~has_provider
            THEN /\ shown' = << NoProviderError >>
                 /\ UNCHANGED << apc, kleos, ovars, pvars >>
            ELSE /\ shown' = << UserPanel >>
                 /\ kleos' = [ NoKleos EXCEPT !.original_prompt = prompt, !.lang = lang,
                                              !.state = "Analyzing",
                                              !.path = << "Activated", "Analyzing" >> ]
                 /\ StartStream(AnalystArgs(prompt, lang), b, FALSE)
                 /\ apc' = "streaming"
  /\ UNCHANGED << has_provider, config, context, log, escaped, cvars >>

\* `analyst_full_output, _ = await ...` and what follows, up to input()
KleosAnalystReturn ==
  LET u == UnpackPair(ret)
  IN  /\ IF u.ok
         THEN /\ kleos' = [ kleos EXCEPT !.raised = @ \/ stream.err # "none", !.analyst = u.first, !.state = "AwaitingUserDetails", !.path = Append(@, "AwaitingUserDetails") ]
              /\ apc' = "kleos_details"
              /\ UNCHANGED shown
         ELSE /\ shown' = Append(shown, ErrorPanel(<< "Error during Kleos analysis: ", UnpackError(ret) >>, None))
              /\ kleos' = [ kleos EXCEPT !.raised = @ \/ stream.err # "none", !.state = "Error", !.path = Append(@, "Error") ]
              /\ apc' = "input"
      /\ UNCHANGED << context, log, escaped, req >>

\* the user's answer, then the first pass of the drafting loop up to its await
KleosDetails(answer, b) ==
  /\ apc = "kleos_details"
  /\ kleos' = [ kleos EXCEPT !.current_context = UserDetails(answer), !.details = answer, !.drafts = 1, !.state = "Drafting", !.path = Append(@, "Drafting") ]
  /\ StartStream(DraftArgs(kleos.original_prompt, UserDetails(answer), kleos.lang), b, FALSE)
  /\ apc' = "streaming"
  /\ req' = [ req EXCEPT !.mode = "draft", !.backend = b ]
  /\ UNCHANGED << has_provider, config, context, shown, log, escaped, inputs, cvars >>

\* `final_prompt, _ = await ...` and what follows, up to input()
KleosDraftReturn ==
  LET u == UnpackPair(ret)
  IN  /\ IF u.ok
         THEN /\ kleos' = [ kleos EXCEPT !.raised = @ \/ stream.err # "none", !.drafted = ret, !.final_prompt = u.first, !.state = "AwaitingConfirmation", !.path = Append(@, "AwaitingConfirmation") ]
              /\ apc' = "kleos_confirm"
              /\ UNCHANGED shown
         ELSE /\ shown' = Append(shown, ErrorPanel(<< "Error during Master Prompt generation: ", UnpackError(ret) >>, None))
              /\ kleos' = [ kleos EXCEPT !.raised = @ \/ stream.err # "none", !.state = "Error", !.path = Append(@, "Error") ]
              /\ apc' = "input"
      /\ UNCHANGED << context, log, escaped, req >>

KleosChoices == { "y", "", "n" }

\* the answer to "Is this okay? (Y/N)": yes leaves the loop and starts the
\* Thinking call, anything else asks for feedback
KleosConfirm(choice, mem, b) ==
  /\ apc = "kleos_confirm"
  /\ IF choice \in { "y", "yes", "" }
     THEN /\ kleos' = [ kleos EXCEPT !.state = "Thinking", !.path = Append(@, "Thinking") ]
          /\ StartStream(ThinkerArgs(kleos.final_prompt, mem), b, TRUE)
          /\ apc' = "streaming"
          /\ req' = [ req EXCEPT !.mode = "thinker", !.backend = b ]
     ELSE /\ apc' = "kleos_feedback"
          /\ UNCHANGED << kleos, req, ovars, pvars >>
  /\ UNCHANGED << has_provider, config, context, shown, log, escaped, inputs, cvars >>

EmptyFeedback_Never(feedback) == FALSE

\* `if not feedback`
EmptyFeedback(feedback) == feedback = << >>

\* the answer to "What would you like to change?": empty cancels the run,
\* anything else is appended and the loop drafts again
KleosFeedback(feedback, b) ==
  /\ apc = "kleos_feedback"
  /\ IF EmptyFeedback(feedback)
     THEN /\ shown' = Append(shown, SystemMessage(<< "Operation cancelled." >>))
          /\ kleos' = [ kleos EXCEPT !.state = "Cancelled", !.path = Append(@, "Cancelled"),
                                     !.feedback = << feedback >> ]
          /\ apc' = "input"
          /\ UNCHANGED << req, ovars, pvars >>
     ELSE /\ kleos.drafts < MaxDrafts
          /\ kleos' = [ kleos EXCEPT !.current_context = WithFeedback(@, feedback),
                                     !.drafts = @ + 1, !.state = "Drafting", !.path = Append(@, "Drafting"),
                                     !.feedback = << feedback >>, !.feedbacks = Append(@, feedback) ]
          /\ StartStream(DraftArgs(kleos.original_prompt, WithFeedback(kleos.current_context, feedback), kleos.lang),
                         b, FALSE)
          /\ apc' = "streaming"
          /\ req' = [ req EXCEPT !.mode = "draft", !.backend = b ]
          /\ UNCHANGED shown
  /\ UNCHANGED << has_provider, config, context, log, escaped, inputs, cvars >>

\* `full_content, self.last_ttft = await ...` of the Thinking call and the
\* rest of _handle_kleos_mode
KleosThinkerReturn ==
  LET u == UnpackPair(ret)
  IN  /\ IF u.ok
         THEN \E stored \in StoreOutcomes(u.first) :
              /\ kleos' = IF stored
                          THEN [ kleos EXCEPT !.raised = @ \/ stream.err # "none", !.state = "Done", !.path = Append(@, "Done") ]
                          ELSE [ kleos EXCEPT !.raised = @ \/ stream.err # "none" ]
              /\ context' = IF u.first # << >>
                            THEN context \o << Msg("user", kleos.original_prompt), Msg("assistant", u.first) >>
                            ELSE context
              /\ log' = IF u.first # << >> /\ config.auto_save_conversations /\ stored
                        THEN Append(log, [ user_message |-> << "[KLEOS] " >> \o kleos.original_prompt,
                                           ai_response |-> u.first ])
                        ELSE log
              /\ AfterStore(stored)
              /\ UNCHANGED shown
         ELSE /\ shown' = Append(shown, ErrorPanel(<< "Error during Thinker phase: ", UnpackError(ret) >>, None))
              /\ kleos' = [ kleos EXCEPT !.raised = @ \/ stream.err # "none", !.state = "Error", !.path = Append(@, "Error") ]
              /\ apc' = "input"
              /\ UNCHANGED << context, log, escaped >>
      /\ UNCHANGED req

\* stream_ai_message has returned to the handler that awaits it
AppReturn ==
  /\ apc = "streaming"
  /\ opc = "returned"
  /\ CASE req.mode = "ordinary" -> SendToAIReturn
       [] req.mode = "analyst" -> KleosAnalystReturn
       [] req.mode = "draft" -> KleosDraftReturn
       [] req.mode = "thinker" -> KleosThinkerReturn
  /\ OrchDiscard
  /\ UNCHANGED << has_provider, config, inputs, cvars, pvars >>

\* inputs
OrdinaryLines == { << "hello" >> }

KleosLines ==
  { << "/kleos" >>,
    << "/kleos", " ", "Hi" >>,
    << "/kleos", " ", "La", "  ", "Casa" >> }

MemoryBlocks == { << >>, << "M" >> }

KleosAnswers == { << >>, << "d" >> }

KleosFeedbacks == { << >>, << "f" >> }

AppChunk(c) == [ has |-> TRUE, text |-> << c >>, meta |-> NoMeta ]

\* what the backend may stream to the application: two characters, one
\* fragment of three characters, a failure before the first fragment and a
\* failure after two fragments
AppBackends ==
  { [ chunks |-> << AppChunk("a"), AppChunk("b") >>, err |-> "none" ],
    [ chunks |-> << [ has |-> TRUE, text |-> << "H", "e", "l" >>, meta |-> NoMeta ] >>, err |-> "none" ],
    [ chunks |-> << >>, err |-> "RATE_LIMIT" ],
    [ chunks |-> << AppChunk("a"), AppChunk("b") >>, err |-> "OTHER" ] }

InitOrch == OrchIdle /\ CallerIdle /\ ProvIdle("gemini") /\ AppIdle(TRUE, DefaultConfig)

NextOrch ==
  \/ CallStream
  \/ OrchChunk
  \/ OrchSleep
  \/ OrchExhausted
  \/ OrchException
  \/ OrchFinal
  \/ SetCancel
  \/ CallerUnpack

SpecOrch == InitOrch /\ [][NextOrch]_vars

InitProv == OrchIdle /\ CallerIdle /\ AppIdle(TRUE, DefaultConfig) /\ \E k \in Kinds : ProvIdle(k)

NextProv ==
  \/ \E a \in CallArgs, b \in SendBackends : SendMessage(a, b) /\ UNCHANGED << ovars, cvars, avars >>
  \/ \E a \in CallArgs, b \in StreamBackends : StreamMessage(a, b) /\ UNCHANGED << ovars, cvars, avars >>
  \/ StreamPull /\ UNCHANGED << ovars, cvars, avars >>
  \/ \E m \in ModelNames, exists \in BOOLEAN : SetModelStep(m, exists) /\ UNCHANGED << lastOp, ovars, cvars, avars >>
  \/ ResetChatStep /\ UNCHANGED << lastOp, ovars, cvars, avars >>

SpecProv == InitProv /\ [][NextProv]_vars

NextUsage ==
  \/ \E b \in UsageSendBackends : SendMessage(PlainArgs, b) /\ UNCHANGED << ovars, cvars, avars >>
  \/ \E b \in UsageStreamBackends : StreamMessage(PlainArgs, b) /\ UNCHANGED << ovars, cvars, avars >>
  \/ StreamPull /\ UNCHANGED << ovars, cvars, avars >>
  \/ ResetSessionUsage /\ UNCHANGED << ovars, cvars, avars >>

SpecUsage == InitProv /\ [][NextUsage]_vars

NextFail ==
  \/ \E b \in FailSendBackends : SendMessage(PlainArgs, b) /\ UNCHANGED << ovars, cvars, avars >>
  \/ \E b \in FailStreamBackends : StreamMessage(PlainArgs, b) /\ UNCHANGED << ovars, cvars, avars >>
  \/ StreamPull /\ UNCHANGED << ovars, cvars, avars >>

SpecFail == InitProv /\ [][NextFail]_vars

\* the language specification: detect_lang applied to prompts of lower-case
\* words
LangWords == { "la", "casa", "che", "que", "der", "marco", "a" }

LangPrompts == { JoinWords(ws) : ws \in SeqsUpTo(LangWords, MaxWords) }

NextLang == \E text \in LangPrompts : DetectStep(text)

SpecLang == InitProv /\ [][NextLang]_vars

\* the cancellation specification: streamed requests one after the other,
\* each of which may be cancelled, and the finalisation of abandoned generators
NextCancel ==
  \/ \E b \in CancelBackends : StreamRequest(PlainArgs, b)
  \/ AppPull
  \/ AppSleep
  \/ AppFinal
  \/ AppCancel
  \/ StreamReturn
  \/ GenClose

SpecCancel == InitProv /\ [][NextCancel]_vars

\* the administration specification: calls interleaved with set_model,
\* reset_chat and reset_session_usage, by a caller that holds a history
InitAdmin ==
  /\ OrchIdle
  /\ CallerIdle
  /\ \E k \in Kinds : ProvIdle(k)
  /\ \E c \in Contexts :
       /\ has_provider = TRUE
       /\ config = DefaultConfig
       /\ context = c
       /\ apc = "input"
       /\ req = NoRequest
       /\ kleos = NoKleos
       /\ shown = << >>
       /\ log = << >>
       /\ escaped = None
       /\ inputs = 0

NextAdmin ==
  \/ \E a \in AdminArgs, b \in AdminSendBackends : SendMessage(a, b) /\ UNCHANGED << ovars, cvars, avars >>
  \/ \E a \in AdminArgs, b \in AdminStreamBackends : StreamMessage(a, b) /\ UNCHANGED << ovars, cvars, avars >>
  \/ StreamPull /\ UNCHANGED << ovars, cvars, avars >>
  \/ \E m \in AdminModels : SetModel(m) /\ UNCHANGED << ovars, cvars, avars >>
  \/ ResetChat /\ UNCHANGED << ovars, cvars, avars >>
  \/ ResetSessionUsage /\ UNCHANGED << ovars, cvars, avars >>

SpecAdmin == InitAdmin /\ [][NextAdmin]_vars

\* the local specification: the GGUF adapter's calls, whose loading may
\* fail, with set_model, reset_chat, reset_session_usage, validate_api_key
\* and unload
InitLocal == OrchIdle /\ CallerIdle /\ AppIdle(TRUE, DefaultConfig) /\ ProvIdle("gguf")

NextLocal ==
  \/ \E b \in FailSendBackends : SendMessage(PlainArgs, b) /\ UNCHANGED << ovars, cvars, avars >>
  \/ \E b \in FailStreamBackends : StreamMessage(PlainArgs, b) /\ UNCHANGED << ovars, cvars, avars >>
  \/ StreamPull /\ UNCHANGED << ovars, cvars, avars >>
  \/ \E m \in AdminModels : SetModel(m) /\ UNCHANGED << ovars, cvars, avars >>
  \/ ResetChat /\ UNCHANGED << ovars, cvars, avars >>
  \/ ResetSessionUsage /\ UNCHANGED << ovars, cvars, avars >>
  \/ \E load \in LoadFailures \cup { "ok" } : ValidateApiKey(load) /\ UNCHANGED << ovars, cvars, avars >>
  \/ Unload /\ UNCHANGED << ovars, cvars, avars >>

SpecLocal == InitLocal /\ [][NextLocal]_vars

\* ------------------------------------------------- application, claims
\* the failure kinds that are propagated as failures
PropagatedFailures == { "InvalidCredential", "RateLimited", "BackendUnavailable", "Unknown" }

\* the handler of the current input line is over
HandlerOver == apc \in { "input", "crashed" }

\* an ordinary request was submitted to a provider whose backend fails
OrdinaryRequestFails ==
  /\ req.kind = "ordinary"
  /\ has_provider
  /\ StreamOf(kind, req.backend).err \in PropagatedFailures

\* an error with a suggestion was displayed for the current input line
ErrorWithSuggestionShown ==
  \E i \in 1..Len(shown) : shown[i].kind = "error" /\ shown[i].suggestion # None

\* C10 (as claimed): when the provider's backend fails with InvalidCredential,
\* RateLimited, BackendUnavailable or Unknown for an ordinary request, the
\* failure reaches _send_to_ai: the request ends inside the application loop
\* (no exception leaves it) with an error message and a suggestion displayed.
C10_FailureDisplayed ==
  (HandlerOver /\ OrdinaryRequestFails) =>
    /\ escaped = None
    /\ ErrorWithSuggestionShown

InitApp ==
  /\ OrchIdle
  /\ CallerIdle
  /\ \E k \in AppKinds, hp \in BOOLEAN, c \in Configs :
       /\ ProvIdle(k)
       /\ AppIdle(hp, c)
       /\ ~hp => k = "gemini"

NextApp ==
  \/ \E line \in OrdinaryLines, mem \in MemoryBlocks, b \in AppBackends : SendToAI(line, mem, b)
  \/ ResetCommand
  \/ \E line \in KleosLines, b \in AppBackends : KleosCommand(line, b)
  \/ \E answer \in KleosAnswers, b \in AppBackends : KleosDetails(answer, b)
  \/ \E choice \in KleosChoices, mem \in MemoryBlocks, b \in AppBackends : KleosConfirm(choice, mem, b)
  \/ \E feedback \in KleosFeedbacks, b \in AppBackends : KleosFeedback(feedback, b)
  \/ AppPull
  \/ AppSleep
  \/ AppFinal
  \/ AppReturn

SpecApp == InitApp /\ [][NextApp]_vars

\* the Kleos specification: /kleos runs alone, by a caller who already holds
\* a conversation history
InitKleos ==
  /\ OrchIdle
  /\ CallerIdle
  /\ \E k \in AppKinds : ProvIdle(k)
  /\ \E c \in Contexts :
       /\ has_provider = TRUE
       /\ config = DefaultConfig
       /\ context = c
       /\ apc = "input"
       /\ req = NoRequest
       /\ kleos = NoKleos
       /\ shown = << >>
       /\ log = << >>
       /\ escaped = None
       /\ inputs = 0

NextKleos ==
  \/ \E line \in KleosLines, b \in AppBackends : inputs < MaxRuns /\ KleosCommand(line, b)
  \/ \E answer \in KleosAnswers, b \in AppBackends : KleosDetails(answer, b)
  \/ \E choice \in KleosChoices, mem \in MemoryBlocks, b \in AppBackends : KleosConfirm(choice, mem, b)
  \/ \E feedback \in KleosFeedbacks, b \in AppBackends : KleosFeedback(feedback, b)
  \/ AppPull
  \/ AppSleep
  \/ AppFinal
  \/ AppReturn

SpecKleos == InitKleos /\ [][NextKleos]_vars

\* the history that n Kleos runs which reached Done leave behind: each
\* appended its prompt and the answer it kept, and nothing trimmed them
RECURSIVE KleosPairs(_)
KleosPairs(n) ==
  IF n = 0 THEN << >>
  ELSE KleosPairs(n - 1) \o << Msg("user", << "hi" >>), Msg("assistant", << "a" >>) >>

\* the rows those runs stored
KleosLog(n) ==
  [ i \in 1..n |-> [ user_message |-> << "[KLEOS] ", "hi" >>, ai_response |-> << "a" >> ] ]

\* the long-session specification: one more input line, /kleos or /reset,
\* typed after up to max_context_messages completed Kleos runs; the provider
\* is taken with no session and zero counters, which no Kleos call reads
\* (each opens with an empty history)
InitLong ==
  /\ OrchIdle
  /\ CallerIdle
  /\ \E k \in AppKinds : ProvIdle(k)
  /\ \E n \in 0..MaxContextMessages :
       /\ has_provider = TRUE
       /\ config = DefaultConfig
       /\ context = KleosPairs(n)
       /\ apc = "input"
       /\ req = NoRequest
       /\ kleos = NoKleos
       /\ shown = << >>
       /\ log = KleosLog(n)
       /\ escaped = None
       /\ inputs = 0

NextLong ==
  \/ inputs < MaxRuns /\ ResetCommand
  \/ \E line \in KleosLines, b \in AppBackends : inputs < MaxRuns /\ KleosCommand(line, b)
  \/ \E answer \in KleosAnswers, b \in AppBackends : KleosDetails(answer, b)
  \/ \E choice \in KleosChoices, mem \in MemoryBlocks, b \in AppBackends : KleosConfirm(choice, mem, b)
  \/ \E feedback \in KleosFeedbacks, b \in AppBackends : KleosFeedback(feedback, b)
  \/ AppPull
  \/ AppSleep
  \/ AppFinal
  \/ AppReturn

SpecLong == InitLong /\ [][NextLong]_vars

\* the provider-switch specification: /model, /reset and a Kleos run that
\* is confirmed at once, typed by a caller who holds a conversation history
ModelBackends == { [ chunks |-> << AppChunk("a"), AppChunk("b") >>, err |-> "none" ] }

InitModel ==
  /\ OrchIdle
  /\ CallerIdle
  /\ \E k \in AppKinds, c \in Contexts :
       /\ ProvIdle(k)
       /\ has_provider = TRUE
       /\ config = ModelConfig(k)
       /\ context = c
       /\ apc = "input"
       /\ req = NoRequest
       /\ kleos = NoKleos
       /\ shown = << >>
       /\ log = << >>
       /\ escaped = None
       /\ inputs = 0

NextModel ==
  \/ \E p \in ProviderNames, typed \in { "long", "short" } :
       \E m \in ConfigModels(p), outcome \in SwitchOutcomes(p) : ModelCommand(p, typed, m, outcome)
  \/ ResetCommand
  \/ \E b \in ModelBackends : KleosCommand(<< "/kleos", " ", "Hi" >>, b)
  \/ \E b \in ModelBackends : KleosDetails(<< >>, b)
  \/ \E b \in ModelBackends : KleosConfirm("y", << >>, b)
  \/ AppPull
  \/ AppSleep
  \/ AppFinal
  \/ AppReturn

SpecModel == InitModel /\ [][NextModel]_vars

\* ------------------------------------------- provider, failures, claims
\* the last call is over: send_message returned or raised, or the generator of
\* stream_message ended or raised
CallOver ==
  /\ lastCall.op # "none"
  /\ lastCall.op = "stream" => gen[1].phase \in { "done", "raised" }

\* the backend error the last call met ("none" when it met none)
LastRaw ==
  IF lastCall.op = "stream"
  THEN (IF gen[1].phase = "raised" THEN gen[1].err ELSE "none")
  ELSE IF lastCall.raw = "ok" THEN "none" ELSE lastCall.raw

\* how the last call left the adapter: "ok", "ContentBlocked" (both values),
\* a failure of the taxonomy, or "Unclassified" for an exception no except
\* clause of the adapter turned into one
Outcome ==
  IF lastCall.op = "stream"
  THEN (IF gen[1].phase = "raised"
        THEN (IF gen[1].err \in LoadFailures THEN "Unclassified" ELSE Classify(kind, "stream", gen[1].err))
        ELSE IF gen[1].phase = "done" THEN "ok" ELSE "streaming")
  ELSE lastCall.outcome

\* the last call handed its caller a value (a response, or the end of the
\* stream) and raised nothing
DeliveredAsValue == Outcome \in { "ok", "ContentBlocked" }

\* C11 (as claimed): a policy refusal of the backend leaves send_message and
\* stream_message as a ContentBlocked response value, never as an exception.
C11_RefusalIsData ==
  (CallOver /\ LastRaw = "SAFETY") => (Outcome = "ContentBlocked" /\ DeliveredAsValue)

\* C12 (as claimed): a call that fails leaves the adapter as one failure of
\* the shared taxonomy, never as an unclassified exception, and an Unknown
\* failure carries the original error message.
C12_FailuresClassified ==
  (CallOver /\ ~DeliveredAsValue) =>
    /\ Outcome \in PropagatedFailures
    /\ Outcome = "Unknown" =>
         \E i \in 1..Len(ErrorText(kind, lastCall.op, LastRaw)) :
           ErrorText(kind, lastCall.op, LastRaw)[i] = LastRaw

\* ------------------------------------- provider, administration, claims
\* C13: set_model(x) with x outside a non-empty available_models() returns
\* false and leaves the provider's current model as it was.
C13_RejectedModelKept ==
  (lastOp.name = "set_model" /\ AvailableModels(kind) # { } /\ lastOp.arg \notin AvailableModels(kind)) =>
    /\ lastOp.returned = FALSE
    /\ model = lastOp.before.model

C13_Witness ==
  /\ kind = "gemini"
  /\ lastOp.name = "set_model"
  /\ lastOp.arg = "llama3"
  /\ lastOp.before.model = "gemma-3-27b"
  /\ lastOp.returned = FALSE
  /\ model = "gemma-3-27b"

\* C14: a successful set_model on the session-backed adapter leaves no
\* session handle, so the session any call uses, and the session the provider
\* holds, is bound to the model that was current when it was created: none
\* outlives a model change.
C14_NoSessionAcrossModels ==
  /\ (Stateful(kind) /\ lastOp.name = "set_model" /\ lastOp.returned) => chat = NoChat
  /\ SessionCall => lastCall.session[1].model = ApiModelName(lastCall.model)
  /\ (Stateful(kind) /\ chat # NoChat) => chat[1].model = ApiModelName(model)

C14_Witness ==
  /\ SessionCall
  /\ tally.issued = 2
  /\ lastCall.model = "gemma-3-27b"
  /\ lastCall.chatBefore = NoChat
  /\ lastCall.args.context # << >>
  /\ lastCall.session[1].model = "gemma-3-27b-it"
  /\ chat # NoChat

\* C15: after reset_chat() the provider holds no session handle, and its
\* model, its usage accumulator, its loaded local model and the caller's
\* conversation history are what they were before the call.
C15_ResetChatDropsOnlySession ==
  lastOp.name = "reset_chat" =>
    /\ chat = NoChat
    /\ model = lastOp.before.model
    /\ usage = lastOp.before.usage
    /\ llm = lastOp.before.llm
    /\ context = lastOp.before.context

C15_Witness ==
  /\ kind = "gemini"
  /\ lastOp.name = "reset_chat"
  /\ lastOp.before.chat # NoChat
  /\ lastOp.before.usage.requests_count > 0
  /\ context # << >>
  /\ chat = NoChat

\* C16: get_session_usage() right after reset_session_usage() returns zero
\* for tokens_input, tokens_output, tokens_total and requests_count, whatever
\* calls came before.
C16_ResetUsageZero ==
  lastOp.name = "reset_session_usage" =>
    /\ GetSessionUsage.tokens_input = 0
    /\ GetSessionUsage.tokens_output = 0
    /\ GetSessionUsage.tokens_total = 0
    /\ GetSessionUsage.requests_count = 0

C16_Witness ==
  /\ lastOp.name = "reset_session_usage"
  /\ lastOp.before.usage.requests_count = 2
  /\ lastOp.before.usage.tokens_total > 0
  /\ GetSessionUsage = ZeroUsage

\* ------------------------------------------ provider, requests, claims
\* C17 (as claimed): the usage a completed send_message returns has
\* tokens_total = tokens_input + tokens_output whenever the backend reported
\* the input and output counts.
C17_TotalIsSum ==
  (lastCall.op = "send" /\ lastCall.outcome = "ok" /\ lastCall.reported) =>
    lastCall.returned.tokens_total = lastCall.returned.tokens_input + lastCall.returned.tokens_output

\* the last call was made on a Gemma model with a non-empty system prompt
GemmaCallWithSystem ==
  /\ SessionCall
  /\ IsGemma(lastCall.model)
  /\ lastCall.args.system_prompt # << >>

\* the conversation the backend sees for the last call: the turns of the
\* session the call used, then the message the call sent
Conversation == lastCall.session[1].history \o << Turn("user", lastCall.sent) >>

\* the text starts with the system prompt and the blank line after it
CarriesSystem(text) == IsPrefix(lastCall.args.system_prompt \o Sep, text)

\* the text ends with the caller's message
EndsWithMessage(text) ==
  /\ Len(text) >= Len(lastCall.args.message)
  /\ SubSeq(text, Len(text) - Len(lastCall.args.message) + 1, Len(text)) = lastCall.args.message

\* C18 (as claimed): on a Gemma model, every call with a non-empty system
\* prompt and no prior history sends a user message that is the system prompt
\* text followed by the user's message.
C18_SystemPromptPrepended ==
  (GemmaCallWithSystem /\ lastCall.args.context = << >>) =>
    /\ CarriesSystem(lastCall.sent)
    /\ EndsWithMessage(lastCall.sent)

\* C19 (as claimed): on a Gemma model, for a call with a non-empty system
\* prompt and a non-empty history the first turn of the conversation the
\* backend sees carries the system prompt, and the new message does not carry
\* it again.
C19_SystemPromptOnceInHistory ==
  (GemmaCallWithSystem /\ lastCall.args.context # << >>) =>
    /\ CarriesSystem(Conversation[1].text)
    /\ Len(Conversation) > 1 => ~CarriesSystem(lastCall.sent)

\* a call of a stateless adapter that got as far as building its request
StatelessRequest == ~Stateful(kind) /\ lastCall.op # "none" /\ lastCall.messages # << >>

\* C20: the message list a stateless adapter sends is made of the call's
\* arguments alone: a system message when a system prompt or a memory block
\* is given, the history turns in order, then the new message, whatever calls,
\* set_model and reset_chat came before; the adapter never holds a session,
\* and reset_chat() changes nothing.
C20_StatelessRebuild ==
  /\ StatelessRequest =>
       LET a == lastCall.args
           ms == lastCall.messages
           head == IF a.system_prompt # << >> \/ a.memories # << >> THEN 1 ELSE 0
       IN  /\ Len(ms) = head + Len(a.context) + 1
           /\ ms[Len(ms)] = Msg("user", a.message)
           /\ \A i \in 1..Len(a.context) :
                /\ ms[head + i].content = a.context[i].content
                /\ ms[head + i].role = (IF a.context[i].role = "user" THEN "user" ELSE "assistant")
           /\ head = 1 =>
                /\ ms[1].role = "system"
                /\ a.system_prompt # << >> => IsPrefix(a.system_prompt, ms[1].content)
  /\ ~Stateful(kind) => chat = NoChat
  /\ (~Stateful(kind) /\ lastOp.name = "reset_chat") =>
       /\ chat = lastOp.before.chat
       /\ model = lastOp.before.model
       /\ usage = lastOp.before.usage
       /\ llm = lastOp.before.llm

C20_Witness ==
  /\ kind = "groq"
  /\ model = "groq/compound"
  /\ StatelessRequest
  /\ tally.issued = 2
  /\ lastCall.args.system_prompt # << >>
  /\ Len(lastCall.messages) = 4

\* the entries of a message list that have the role
WithRole(ms, role) == { i \in 1..Len(ms) : ms[i].role = role }

\* how often the token occurs in the text
Occurrences(text, tok) == Cardinality({ i \in 1..Len(text) : text[i] = tok })

\* C21: in the request of a stateless adapter the system instruction, when
\* given, is the first entry; the entries between it and the last are the
\* caller's history turns, one each, in the caller's order and with the
\* caller's roles; the last entry is the new user message.
C21_RequestOrder ==
  StatelessRequest =>
    LET a == lastCall.args
        ms == lastCall.messages
        first == IF ms[1].role = "system" THEN 2 ELSE 1
    IN  /\ a.system_prompt # << >> =>
             /\ ms[1].role = "system"
             /\ IsPrefix(a.system_prompt, ms[1].content)
        /\ WithRole(ms, "system") \subseteq { 1 }
        /\ SubSeq(ms, first, Len(ms) - 1) = a.context
        /\ ms[Len(ms)] = [ role |-> "user", content |-> a.message ]

C21_Witness ==
  /\ StatelessRequest
  /\ kind = "ollama"
  /\ lastCall.op = "stream"
  /\ lastCall.args.system_prompt # << >>
  /\ Len(lastCall.args.context) = 2
  /\ Len(lastCall.messages) = 4
  /\ lastCall.messages[3].role = "assistant"

\* the memory delimiters
MemoryOpen == "<MEMORIES>\n"
MemoryClose == "\n</MEMORIES>\n"

\* the user content of the last call (the new user message), and everything
\* the call itself hands the backend besides the history turns, as one text
OutgoingUserContent ==
  IF Stateful(kind) THEN lastCall.sent ELSE lastCall.messages[Len(lastCall.messages)].content

OutgoingText ==
  IF Stateful(kind)
  THEN lastCall.session[1].system_instruction \o lastCall.sent
  ELSE Concat([ i \in 1..Len(lastCall.messages) |-> lastCall.messages[i].content ])

\* a call that got as far as building its request
RequestBuilt == lastCall.op # "none" /\ (Stateful(kind) \/ lastCall.messages # << >>)

\* C22 (as claimed): a non-empty memory block is carried by the request
\* exactly once, between the <MEMORIES> delimiters, in the new user message;
\* without a memory block the request holds no delimiter.
C22_MemoryInUserContent ==
  RequestBuilt =>
    IF lastCall.args.memories # << >>
    THEN /\ Occurrences(OutgoingText, MemoryOpen) = 1
         /\ Occurrences(OutgoingText, MemoryClose) = 1
         /\ \E i \in 1..Len(OutgoingUserContent) :
              /\ i + Len(lastCall.args.memories) + 1 <= Len(OutgoingUserContent)
              /\ OutgoingUserContent[i] = MemoryOpen
              /\ SubSeq(OutgoingUserContent, i + 1, i + Len(lastCall.args.memories)) = lastCall.args.memories
              /\ OutgoingUserContent[i + Len(lastCall.args.memories) + 1] = MemoryClose
    ELSE /\ Occurrences(OutgoingText, MemoryOpen) = 0
         /\ Occurrences(OutgoingText, MemoryClose) = 0

\* --------------------------------------- provider, cancellation, claims
\* C23: once stream_ai_message has returned, whether the stream ended, was
\* cancelled or raised, the provider's session handle and usage accumulator
\* stay what they were at that moment until the next request starts: the
\* abandoned call changes neither, and the provider is only touched while a
\* request is being handled.
C23_AbandonedCallSilent ==
  /\ lastOp.name = "returned" =>
       /\ usage = lastOp.before.usage
       /\ chat = lastOp.before.chat
  /\ (apc = "input" /\ lastCall.op # "none") => lastOp.name = "returned"

C23_Witness ==
  /\ kind = "gemini"
  /\ lastOp.name = "returned"
  /\ gen # NoGen
  /\ gen[1].phase = "closed"
  /\ gen[1].chunks[gen[1].pos].meta # NoMeta
  /\ tally.issued = 2

\* ------------------------------------------------------ Kleos, claims
\* the request being handled, or last handled, is a Kleos run that got as far
\* as its activation
KleosRun == req.kind = "kleos" /\ kleos.state # "none"

\* the run is over
KleosOver == KleosRun /\ apc \in { "input", "crashed" }

\* no call of the run raised so far and the user has not answered no
KleosSmooth ==
  /\ KleosRun
  /\ ~kleos.raised
  /\ ~(apc = "streaming" /\ opc \in { "final", "returned" } /\ stream.err # "none")
  /\ apc # "kleos_feedback"
  /\ kleos.feedback = << >>

KleosHappyPath ==
  << "Activated", "Analyzing", "AwaitingUserDetails", "Drafting", "AwaitingConfirmation", "Thinking", "Done" >>

\* C24 (as claimed): a Kleos run whose streamed calls all succeed and whose
\* first confirmation is answered yes goes through Activated, Analyzing,
\* AwaitingUserDetails, Drafting, AwaitingConfirmation, Thinking, Done in that
\* order, through Drafting once, and ends in Done.
C24_HappyPath ==
  KleosSmooth =>
    /\ IsPrefix(kleos.path, KleosHappyPath)
    /\ Occurrences(kleos.path, "Drafting") <= 1
    /\ KleosOver => kleos.state = "Done"

\* C25: in a Kleos run, empty feedback after a no at the confirmation ends
\* the run in Cancelled: Thinking is never entered, and the last call the
\* provider received is the Drafting call that preceded the confirmation.
C25_EmptyFeedbackCancels ==
  (KleosRun /\ kleos.feedback = << << >> >>) =>
    /\ kleos.state = "Cancelled"
    /\ KleosOver
    /\ opc = "idle"
    /\ Occurrences(kleos.path, "Thinking") = 0
    /\ lastCall.args = DraftArgs(kleos.original_prompt, kleos.current_context, kleos.lang)
    /\ gen[1].phase \in { "done", "raised" }

C25_Witness ==
  /\ KleosRun
  /\ kleos.feedback = << << >> >>
  /\ kleos.path = << "Activated", "Analyzing", "AwaitingUserDetails", "Drafting", "AwaitingConfirmation", "Cancelled" >>
  /\ kleos.final_prompt # << >>
  /\ apc = "input"

\* the score of a candidate language for the detected prompt: the distinct
\* words of two letters or more that its list holds
LangScore(l) ==
  Cardinality(({ kleos.original_prompt[i] : i \in 1..Len(kleos.original_prompt) }
                 \ (Whitespace \cup OneLetterWords)) \cap LangKeywords(l))

Candidates == { "it", "es", "fr", "de" }

\* C26 (as claimed): detect_lang returns the candidate whose list matches
\* strictly more distinct words than every other candidate, and en when the
\* highest score is zero or shared.
C26_StrictWinnerOrBaseline ==
  kleos.original_prompt # << >> =>
    LET winners == { l \in Candidates : \A m \in Candidates \ { l } : LangScore(m) < LangScore(l) }
    IN  IF winners # { }
        THEN kleos.lang \in winners
        ELSE kleos.lang = "en"

\* C27 (as claimed): once the provider has raised during the Analyzing,
\* Drafting or Thinking call of a Kleos run, the run is over in the error
\* state with an error displayed, and no later phase was entered.
C27_ProviderFailureEndsRun ==
  (KleosRun /\ kleos.raised) =>
    /\ kleos.state = "Error"
    /\ KleosOver
    /\ \E i \in 1..Len(shown) : shown[i].kind = "error"

\* the text the backend of the current request streams, all fragments joined
StreamedText == Concat([ i \in 1..Len(req.backend.chunks) |-> req.backend.chunks[i].text ])

\* the run reached Done through a Thinking call that did not fail
KleosDone ==
  /\ KleosRun
  /\ kleos.state = "Done"
  /\ req.mode = "thinker"
  /\ req.backend.err = "none"

\* C28 (as claimed): when a Kleos run reaches Done, the conversation history
\* ends with one user/assistant pair whose user turn is the original prompt
\* and whose assistant turn is the full text the Thinking call streamed.
C28_DoneAppendsPair ==
  KleosDone =>
    /\ Len(context) >= 2
    /\ context[Len(context) - 1] = Msg("user", kleos.original_prompt)
    /\ context[Len(context)] = Msg("assistant", StreamedText)

\* C29 (as claimed): when a Kleos run that reached Done is persisted, the
\* persisted user-turn text equals the original prompt, and the message of
\* the Thinking call was the master prompt the run held.
C29_PersistedUserTurn ==
  (KleosDone /\ log # << >>) =>
    /\ log[Len(log)].user_message = kleos.original_prompt
    /\ lastCall.args.message = kleos.final_prompt

\* the provider's last call is the Thinking call of the run
ThinkingCall ==
  /\ KleosRun
  /\ req.mode = "thinker"
  /\ lastCall.op = "stream"

\* C30: the Thinking call of a Kleos run is made with an empty history
\* whatever the caller's context holds, and the backend sees no prior turn
\* for it: the session-backed adapter uses a session with no history, the
\* others send no assistant message and one user message, the master prompt.
C30_ThinkingCleanHistory ==
  ThinkingCall =>
    /\ lastCall.args.context = << >>
    /\ IF kind = "gemini"
       THEN /\ Len(lastCall.session) = 1
            /\ lastCall.session[1].history = << >>
       ELSE /\ WithRole(lastCall.messages, "assistant") = { }
            /\ WithRole(lastCall.messages, "user") = { Len(lastCall.messages) }
            /\ lastCall.messages[Len(lastCall.messages)].content = kleos.final_prompt

C30_Witness ==
  /\ ThinkingCall
  /\ context # << >>
  /\ kind = "gemini"
  /\ lastCall.chatBefore # NoChat
  /\ lastCall.chatBefore[1].history # << >>
  /\ lastCall.args.message = kleos.final_prompt
  /\ kleos.analyst # << >>

\* the first place from `from` on where `part` stands in `text`, 0 if none
FindFrom(text, part, from) ==
  LET hits == { i \in from..(Len(text) - Len(part) + 1) : SubSeq(text, i, i + Len(part) - 1) = part }
  IN  IF hits = { } THEN 0 ELSE CHOOSE i \in hits : \A j \in hits : i <= j

\* the parts stand in the text one after the other, in the order given
RECURSIVE InOrder(_, _, _)
InOrder(text, parts, from) ==
  IF parts = << >> THEN TRUE
  ELSE LET at == FindFrom(text, Head(parts), from)
       IN  at # 0 /\ InOrder(text, Tail(parts), at + Len(Head(parts)))

\* the provider's last call is a Drafting call of the run
DraftingCall ==
  /\ KleosRun
  /\ req.mode = "draft"
  /\ lastCall.op = "stream"

\* C31 (as claimed): the Drafting request made after the rejections so far
\* holds the original prompt, the user's details and every feedback in the
\* order given, and the draft sent to Thinking is the text the most recent
\* Drafting call streamed.
C31_DraftAccumulates ==
  /\ DraftingCall =>
        InOrder(lastCall.args.message, << kleos.original_prompt, kleos.details >> \o kleos.feedbacks, 1)
  /\ ThinkingCall => lastCall.args.message = kleos.drafted

\* the calls of stream_message whose body ran for the current input line
IssuedForRequest == tally.issued - req.issued0

\* C32 (as claimed): no provider call is re-issued automatically: an ordinary
\* request invokes stream_message exactly once however it ends, and a Kleos
\* run confirmed after k rejected drafts makes one Analyzing call, k+1
\* Drafting calls and one Thinking call.
C32_NoRetry ==
  /\ (req.kind = "ordinary" /\ has_provider /\ HandlerOver) => IssuedForRequest = 1
  /\ (KleosRun /\ KleosOver /\ Occurrences(kleos.path, "Thinking") = 1) =>
        /\ IssuedForRequest = Len(kleos.feedbacks) + 3
        /\ Occurrences(kleos.path, "Analyzing") = 1
        /\ Occurrences(kleos.path, "Drafting") = Len(kleos.feedbacks) + 1

\* the last exchange of the current input line was completed and handed to
\* add_conversation, which raised
StoreFailed ==
  /\ req.kind \in { "ordinary", "kleos" }
  /\ req.mode \in { "ordinary", "thinker" }
  /\ HandlerOver
  /\ Len(context) >= 2
  /\ context[Len(context)].role = "assistant"
  /\ context[Len(context) - 1].content \in { req.message, kleos.original_prompt }
  /\ log = << >>
  /\ config.auto_save_conversations

\* C33 (as claimed): when persisting a completed exchange fails, the turn
\* pair stays in the conversation history and the loop goes on to read the
\* next input: no exception leaves the loop.
C33_StoreFailureContained ==
  StoreFailed => (apc = "input" /\ escaped = None)

\* C34 (as claimed): the local GGUF adapter holds no model after
\* construction, acquires it only in send_message, stream_message or
\* validate_api_key, and once it holds it only unload() releases it.
C34_LazyLoadExplicitUnload ==
  [][ /\ (lastOp.name = "none" => ~llm)
      /\ ((~llm /\ llm') => lastOp'.name \in { "call", "validate_api_key" })
      /\ ((llm /\ ~llm') => lastOp'.name = "unload") ]_vars

\* the handler of an ordinary request is over, with a provider whose backend
\* streams a non-empty answer for it and does not fail
OrdinaryAnswered ==
  /\ req.kind = "ordinary"
  /\ has_provider
  /\ HandlerOver
  /\ req.backend.err = "none"
  /\ StreamedText # << >>

\* C35 (as claimed): after an ordinary request that produced output the
\* context has the user message and the assistant text as its two newest
\* turns and holds at most 2 x max_context_messages messages.
C35_ContextGainsPair ==
  OrdinaryAnswered =>
    /\ Len(context) >= 2
    /\ Len(context) <= 2 * MaxContextMessages
    /\ context[Len(context) - 1] = Msg("user", req.message)
    /\ context[Len(context)] = Msg("assistant", StreamedText)

\* C37 (as claimed): whenever the application loop waits for user input the
\* conversation context holds at most 2 x max_context_messages messages.
C37_ContextBounded ==
  apc = "input" => Len(context) <= 2 * MaxContextMessages

\* the text typed after the command word and the blank that follows it
TypedPrompt == SubSeq(req.message, 3, Len(req.message))

\* C39 (as claimed): the prompt a Kleos run works on, and records as the
\* user turn when it reaches Done, is exactly the text typed after /kleos,
\* letter case and internal spacing included.
C39_PromptVerbatim ==
  KleosRun =>
    /\ kleos.original_prompt = TypedPrompt
    /\ kleos.state = "Done" => context[Len(context) - 1] = Msg("user", TypedPrompt)

\* a /model command chose a provider other than the configured one and the
\* switch failed: the key typed was too short, creating the adapter raised,
\* or validating it raised or returned false
SwitchFailed ==
  /\ lastOp.name = "model_command"
  /\ lastOp.arg # lastOp.before.config.default_provider
  /\ ~lastOp.returned

\* C40: a /model command that selects a different provider and fails
\* leaves the provider instance, the configured provider and model and the
\* conversation context as they were.
C40_FailedSwitchKeepsProvider ==
  SwitchFailed =>
    /\ kind = lastOp.before.kind
    /\ model = lastOp.before.model
    /\ chat = lastOp.before.chat
    /\ usage = lastOp.before.usage
    /\ llm = lastOp.before.llm
    /\ config.default_provider = lastOp.before.config.default_provider
    /\ config.default_model = lastOp.before.config.default_model
    /\ context = lastOp.before.context

C40_Witness ==
  /\ SwitchFailed
  /\ shown = << ErrorPanel(<< "Invalid API key." >>, "Check your API key and try again.") >>
  /\ chat # NoChat
  /\ tally.issued > 0
  /\ context # << >>

====
